---- MODULE Spec2Model ----
(***************************************************************************)
(* A model of the FLIP simulator's step (src/src/sim/flip.cpp) and of its   *)
(* pressure solver (src/src/geom/geom.inl).                                 *)
(*                                                                          *)
(* Numbers.  Every float of the program is a fixed-point integer here:      *)
(*   - a face velocity, a pressure, a divergence: a multiple of one         *)
(*     velocity quantum;                                                    *)
(*   - a particle position: a multiple of 1/(maxd*CellUnits), so that a     *)
(*     position times maxd (a grid coordinate) is position/CellUnits;       *)
(*   - a level-set sample L: a non-zero integer (its sign is what the code  *)
(*     branches on); 1e-6 and 1e-3 are below one quantum.                   *)
(* A float division whose result is not a multiple of the quantum rounds    *)
(* (\div), as the float division rounds.                                    *)
(*                                                                          *)
(* Grids.  A grid is a function from the in-domain index tuples to values;  *)
(* the three face grids u_x, u_y, u_z of a macgrid are one function over    *)
(* <<n, i, j, k>> with n = 0, 1, 2 the component, as ExtrapolateVelocity    *)
(* indexes them.                                                            *)
(***************************************************************************)
EXTENDS Integers, Sequences, FiniteSets, TLC

\* ------------------------------------------------------------------ bounds

\* Largest grid dimension along one axis.
MaxDim == 2
\* Largest magnitude of an input face velocity, in quanta.
MaxVel == 1
\* Largest magnitude of a level-set sample.
MaxL == 1

\* Position quanta per cell width: the resolution of particle positions.
CellUnits == 4
\* Positive answers the scene's solid geometry gives in one run.
MaxHits == 1

\* Largest number of cells of a grid.
MaxCells == MaxDim + 2

VARIABLES
    \* control: the phases still to run in the current call, those already run
    todo, trace,
    \* configuration: m_dimensions, m_subcell, the number of the enumerator
    \* FLUID (declared outside the sources), m_picflipratio in twentieths, the
    \* scene's external forces, the cells the scene's solid geometry covers
    dims, subcell, fluidCode, picflipratio, forces, solidCells,
    \* m_max_density, in the units of a particle's density
    maxDensity,
    \* m_mgrid: marker, level set, faces, pressure, divergence
    A, L, u, P, D,
    \* m_mgrid_previous: faces
    uprev,
    \* the preconditioner grid of solve, as buildPreconditioner left it
    precon,
    \* the grid r of solveConjugateGradient, as it is when the solver returns
    resid,
    \* m_particles, and the cell m_pgrid has each particle in since the last Sort
    particles, pgrid,
    \* m_frame
    frame,
    \* the scene queries of the last phase: the particles a point-in-solid
    \* query was made for, those the unstick check found inside a solid, where
    \* ProjectPointsToSurface put each of these, those a ray was cast for, the
    \* distance from the ray's origin IntersectSolidGeoms gave the unstick phase,
    \* the particles GenerateParticles gave Init
    sceneLog,
    \* how many more positive answers the scene's solid geometry gives
    budget,
    \* whether two iterations of one parallel loop have touched the same slot,
    \* one of them writing
    race,
    \* the values of A, u, uprev, P, D and m_particles when the last phase started
    before

ctlVars == <<todo, trace>>
cfgVars == <<dims, subcell, fluidCode, picflipratio, forces, solidCells, maxDensity>>
gridVars == <<A, L, u, P, D, uprev, precon, resid>>
partVars == <<particles, pgrid>>
sceneVars == <<sceneLog, budget>>
vars == <<todo, trace, dims, subcell, fluidCode, picflipratio, forces, solidCells,
          maxDensity,
          A, L, u, P, D, uprev, precon, resid, particles, pgrid, frame, sceneLog,
          budget, race, before>>

\* ------------------------------------------------------------ grid geometry

Max2(a, b) == IF a >= b THEN a ELSE b
Min2(a, b) == IF a <= b THEN a ELSE b
Abs(a) == IF a >= 0 THEN a ELSE -a

\* The grid dimensions the model runs on.
GridDims == {d \in (1..MaxDim) \X (1..MaxDim) \X (1..MaxDim) :
                d[1] * d[2] * d[3] <= MaxCells}

\* float maxd = glm::max(glm::max(m_dimensions.x, m_dimensions.z), m_dimensions.y)
Maxd(d) == Max2(Max2(d[1], d[3]), d[2])

Cells(d) == (0..(d[1]-1)) \X (0..(d[2]-1)) \X (0..(d[3]-1))

InDomain(d, i, j, k) == /\ 0 <= i /\ i <= d[1] - 1
                        /\ 0 <= j /\ j <= d[2] - 1
                        /\ 0 <= k /\ k <= d[3] - 1

\* The faces of the three staggered grids: u_x is (X+1)*Y*Z, u_y is X*(Y+1)*Z,
\* u_z is X*Y*(Z+1).
XFaces(d) == {<<0, i, j, k>> : i \in 0..d[1], j \in 0..(d[2]-1), k \in 0..(d[3]-1)}
YFaces(d) == {<<1, i, j, k>> : i \in 0..(d[1]-1), j \in 0..d[2], k \in 0..(d[3]-1)}
ZFaces(d) == {<<2, i, j, k>> : i \in 0..(d[1]-1), j \in 0..(d[2]-1), k \in 0..d[3]}
Faces(d) == XFaces(d) \cup YFaces(d) \cup ZFaces(d)

Markers == {"AIR", "FLUID", "SOLID"}

ZeroFaces(d) == [f \in Faces(d) |-> 0]
ZeroCells(d) == [c \in Cells(d) |-> 0]

\* ------------------------------------------------ StorePreviousGrid (324-363)

\* A bug StorePreviousGrid could have: the x loop stops at x instead of x+1.
StoreXLoopShort(d) ==
    {<<0, i, j, k>> : i \in 0..(d[1]-1), j \in 0..(d[2]-1), k \in 0..(d[3]-1)}

\* The index ranges of the three loops of StorePreviousGrid.
StoreXLoop(d) == {<<0, i, j, k>> : i \in 0..d[1], j \in 0..(d[2]-1), k \in 0..(d[3]-1)}
StoreYLoop(d) == {<<1, i, j, k>> : i \in 0..(d[1]-1), j \in 0..d[2], k \in 0..(d[3]-1)}
StoreZLoop(d) == {<<2, i, j, k>> : i \in 0..(d[1]-1), j \in 0..(d[2]-1), k \in 0..d[3]}

\* m_mgrid_previous.m_u_*->SetCell(i,j,k, m_mgrid.m_u_*->GetCell(i,j,k))
StorePreviousGridOp(d, cur, prev) ==
    [f \in DOMAIN prev |->
        IF f \in StoreXLoop(d) \cup StoreYLoop(d) \cup StoreZLoop(d)
        THEN cur[f] ELSE prev[f]]

\* --------------------------------------------- SubtractPreviousGrid (365-410)

SubtractXLoop(d) == {<<0, i, j, k>> : i \in 0..d[1], j \in 0..(d[2]-1), k \in 0..(d[3]-1)}
SubtractYLoop(d) == {<<1, i, j, k>> : i \in 0..(d[1]-1), j \in 0..d[2], k \in 0..(d[3]-1)}
SubtractZLoop(d) == {<<2, i, j, k>> : i \in 0..(d[1]-1), j \in 0..(d[2]-1), k \in 0..d[3]}

\* float sub = m_mgrid.u->GetCell(i,j,k) - m_mgrid_previous.u->GetCell(i,j,k);
\* m_mgrid_previous.u->SetCell(i,j,k,sub)
SubtractPreviousGridOp(d, cur, prev) ==
    [f \in DOMAIN prev |->
        IF f \in SubtractXLoop(d) \cup SubtractYLoop(d) \cup SubtractZLoop(d)
        THEN cur[f] - prev[f] ELSE prev[f]]

\* ---------------------------------------------- ExtrapolateVelocity (452-566)

\* The cell behind face f (one step back along the face's own axis) and the
\* cell in front of it (the cell with the face's own index).
BackCell(f) == <<f[2] - (IF f[1] = 0 THEN 1 ELSE 0),
                 f[3] - (IF f[1] = 1 THEN 1 ELSE 0),
                 f[4] - (IF f[1] = 2 THEN 1 ELSE 0)>>
FrontCell(f) == <<f[2], f[3], f[4]>>
\* The face's index along its own axis, and the grid's size along that axis.
AxisIndex(f) == f[f[1] + 2]
AxisSize(d, f) == d[f[1] + 1]

\* mark[n]->SetCell(i,j,k, (i>0 && A(i-1,j,k)==FLUID) || (i<x && A(i,j,k)==FLUID))
Mark(d, a, f) ==
    \/ (AxisIndex(f) > 0 /\ a[BackCell(f)] = "FLUID")
    \/ (AxisIndex(f) < AxisSize(d, f) /\ a[FrontCell(f)] = "FLUID")

\* wallmark[n]->SetCell(i,j,k, (i<=0 || A(i-1,j,k)==SOLID) && (i>=x || A(i,j,k)==SOLID))
Wallmark(d, a, f) ==
    /\ (AxisIndex(f) <= 0 \/ a[BackCell(f)] = "SOLID")
    /\ (AxisIndex(f) >= AxisSize(d, f) \/ a[FrontCell(f)] = "SOLID")

\* glm::vec3 q[6] = { (i-1,j,k), (i+1,j,k), (i,j-1,k), (i,j+1,k), (i,j,k-1), (i,j,k+1) }
FaceNeighbor(f, qk) ==
    CASE qk = 0 -> <<f[1], f[2] - 1, f[3], f[4]>>
      [] qk = 1 -> <<f[1], f[2] + 1, f[3], f[4]>>
      [] qk = 2 -> <<f[1], f[2], f[3] - 1, f[4]>>
      [] qk = 3 -> <<f[1], f[2], f[3] + 1, f[4]>>
      [] qk = 4 -> <<f[1], f[2], f[3], f[4] - 1>>
      [] OTHER  -> <<f[1], f[2], f[3], f[4] + 1>>

\* q[0]>=0 && q[0]<x+(n==0) && q[1]>=0 && q[1]<y+(n==1) && q[2]>=0 && q[2]<z+(n==2)
NeighborInRange(d, q) ==
    /\ q[2] >= 0 /\ q[2] < d[1] + (IF q[1] = 0 THEN 1 ELSE 0)
    /\ q[3] >= 0 /\ q[3] < d[2] + (IF q[1] = 1 THEN 1 ELSE 0)
    /\ q[4] >= 0 /\ q[4] < d[3] + (IF q[1] = 2 THEN 1 ELSE 0)

\* A bug ExtrapolateVelocity could have: the neighbours are read whether marked
\* or not.
ReadNeighborsUnmarked(d, a, f) ==
    {q \in {FaceNeighbor(f, qk) : qk \in 0..5} : NeighborInRange(d, q)}

\* The neighbours of f the inner loop reads: in range and marked.
ReadNeighbors(d, a, f) ==
    {q \in {FaceNeighbor(f, qk) : qk \in 0..5} :
        NeighborInRange(d, q) /\ Mark(d, a, q)}

\* if(mark[n]->GetCell(q)){ wsum++; sum += m_mgrid.m_u_*->GetCell(q); }
NeighborTerm(d, a, cur, f, qk) ==
    IF FaceNeighbor(f, qk) \in ReadNeighbors(d, a, f)
    THEN cur[FaceNeighbor(f, qk)] ELSE 0

ExtrapolateSum(d, a, cur, f) ==
    NeighborTerm(d, a, cur, f, 0) + NeighborTerm(d, a, cur, f, 1)
  + NeighborTerm(d, a, cur, f, 2) + NeighborTerm(d, a, cur, f, 3)
  + NeighborTerm(d, a, cur, f, 4) + NeighborTerm(d, a, cur, f, 5)

\* A bug ExtrapolateVelocity could have: the sum divided by the six neighbours
\* a face can have, not by the number of them that are marked.
ExtrapolateWsumSix(d, a, f) == 6

ExtrapolateWsum(d, a, f) == Cardinality(ReadNeighbors(d, a, f))

\* if(!mark[n]->GetCell(i,j,k) && wallmark[n]->GetCell(i,j,k)) ... if(wsum) SetCell
ExtrapolateWrites(d, a, f) ==
    /\ ~Mark(d, a, f) /\ Wallmark(d, a, f)
    /\ ExtrapolateWsum(d, a, f) # 0

\* One iteration (i,j,k,n) of the extrapolation loop, on the grid as it is.
ExtrapolateFace(d, a, cur, f) ==
    IF ExtrapolateWrites(d, a, f)
    THEN [cur EXCEPT ![f] = ExtrapolateSum(d, a, cur, f) \div ExtrapolateWsum(d, a, f)]
    ELSE cur

\* The iteration space of the loop: i in 0..x, j in 0..y, k in 0..z, n in 0..2,
\* numbered in the order of the nested loops.
ExtrapolateIterations(d) == (d[1] + 1) * (d[2] + 1) * (d[3] + 1) * 3
ExtrapolateIndex(d, idx) ==
    <<idx % 3,
      idx \div (3 * (d[3] + 1) * (d[2] + 1)),
      (idx \div (3 * (d[3] + 1))) % (d[2] + 1),
      (idx \div 3) % (d[3] + 1)>>

\* if(n!=0 && i>x-1){ continue; } if(n!=1 && j>y-1){ continue; } if(n!=2 && k>z-1){ continue; }
ExtrapolateSkips(d, f) ==
    \/ (f[1] # 0 /\ f[2] > d[1] - 1)
    \/ (f[1] # 1 /\ f[3] > d[2] - 1)
    \/ (f[1] # 2 /\ f[4] > d[3] - 1)

RECURSIVE ExtrapolateFrom(_, _, _, _)
ExtrapolateFrom(d, a, cur, idx) ==
    IF idx >= ExtrapolateIterations(d) THEN cur
    ELSE LET f == ExtrapolateIndex(d, idx)
         IN  ExtrapolateFrom(d, a,
                 IF ExtrapolateSkips(d, f) THEN cur ELSE ExtrapolateFace(d, a, cur, f),
                 idx + 1)

ExtrapolateVelocityOp(d, a, cur) == ExtrapolateFrom(d, a, cur, 0)

\* ------------------------------------------------------------ Project (412-450)

\* u_x(i+1,j,k) - u_x(i,j,k) + u_y(i,j+1,k) - u_y(i,j,k) + u_z(i,j,k+1) - u_z(i,j,k),
\* divided by h = 1/maxd.
Divergence(d, cur, c) ==
    ( cur[<<0, c[1] + 1, c[2], c[3]>>] - cur[<<0, c[1], c[2], c[3]>>]
    + cur[<<1, c[1], c[2] + 1, c[3]>>] - cur[<<1, c[1], c[2], c[3]>>]
    + cur[<<2, c[1], c[2], c[3] + 1>>] - cur[<<2, c[1], c[2], c[3]>>] ) * Maxd(d)

\* The divergence loop: every cell i < x, j < y, k < z.
ComputeDivergence(d, cur) == [c \in Cells(d) |-> Divergence(d, cur, c)]

\* The level-set samples: non-zero, of either sign.
LVals == {l \in (-MaxL)..MaxL : l # 0}

\* m_pgrid->BuildSDF(m_mgrid, m_density) is not in the sources; it writes L from
\* the particles.  The fields it can leave: one value on the FLUID cells and
\* one on the others, each of either sign.
LevelSets(d, a) ==
    {[c \in Cells(d) |-> IF a[c] = "FLUID" THEN lf ELSE la] : lf \in LVals, la \in LVals}

\* ------------------------------------------------- the solver (geom.inl 59-217)

\* A bug the loops of the solver could have: the cells taken from the last flat
\* index down to the first.
FlatIndexDescending(d, gn) ==
    LET g == d[1] * d[2] * d[3] - 1 - gn
    IN  <<(g % (d[1] * d[2])) % d[3], (g % (d[1] * d[2])) \div d[3], g \div (d[1] * d[2])>>

\* int i=(gn%((x)*(y)))%(z); int j=(gn%((x)*(y)))/(z); int k = gn/((x)*(y));
FlatIndex(d, gn) ==
    <<(gn % (d[1] * d[2])) % d[3], (gn % (d[1] * d[2])) \div d[3], gn \div (d[1] * d[2])>>

\* The grids of the solver are sparse (floatgrid(0.0f) takes a background value
\* and no size), so an index outside the domain is a cell of its own: a write
\* to it changes no in-domain cell, and the model, which keeps the in-domain
\* cells only, drops it.
RECURSIVE FlipFrom(_, _, _)
FlipFrom(d, grid, gn) ==
    IF gn >= d[1] * d[2] * d[3] THEN grid
    ELSE LET c == FlatIndex(d, gn)
         IN  FlipFrom(d,
                 IF c \in Cells(d) THEN [grid EXCEPT ![c] = -grid[c]] ELSE grid,
                 gn + 1)

\* Takes a grid, multiplies everything by -1
flipGrid(grid, d) == FlipFrom(d, grid, 0)

\* The solver's diagonal and preconditioner values are kept in units of
\* 1/DiagScale, a common multiple of the magnitudes of L, so that the quotient
\* L[q]/L[c] of the ghost-fluid term is exact.
RECURSIVE Factorial(_)
Factorial(n) == IF n <= 1 THEN 1 ELSE n * Factorial(n - 1)
DiagScale == Factorial(MaxL)

\* 1/1.0e-6f and 1/1.0e-3f: the ghost-fluid clamps of the denominator.
InvEps6 == 1000000
InvEps3 == 1000

\* num / glm::min(eps, den), times scale: den is a level-set sample, a non-zero
\* integer, so it is below eps exactly when it is negative.
OverMinEps(num, den, invEps, scale) ==
    IF den > 0 THEN num * invEps * scale
    ELSE -((num * scale) \div (-den))

\* -1 between two in-domain FLUID cells, else 0.
ARef(a, i, j, k, qi, qj, qk, d) ==
    IF ~InDomain(d, i, j, k) \/ a[<<i, j, k>>] # "FLUID" THEN 0
    ELSE IF ~InDomain(d, qi, qj, qk) \/ a[<<qi, qj, qk>>] # "FLUID" THEN 0
    ELSE -1

\* The preconditioner grid holds, for a cell that was set to 1/sqrt(e), the
\* value e in units of 1/DiagScale, and 0 for a cell still at the background
\* 0.0f.  PreconEquals(v, n) is "the stored float equals the integer n".
PreconEquals(v, n) ==
    IF n = 0 THEN v = 0 ELSE (v > 0 /\ v * n * n = DiagScale)

\* if( out of range || p->getCell(i,j,k)!=FLUID ) return 0.0f; return p->getCell(i,j,k);
\* The stored float is compared with the enumerator FLUID, whose number fc is
\* declared outside the sources: what is returned is 0 or fc itself.
PRef(p, i, j, k, d, fc) ==
    IF ~InDomain(d, i, j, k) \/ ~PreconEquals(p[<<i, j, k>>], fc) THEN 0
    ELSE fc

\* int q[][3] = { {i-1,j,k}, {i+1,j,k}, {i,j-1,k}, {i,j+1,k}, {i,j,k-1}, {i,j,k+1} }
CellNeighbor(c, m) ==
    CASE m = 0 -> <<c[1] - 1, c[2], c[3]>>
      [] m = 1 -> <<c[1] + 1, c[2], c[3]>>
      [] m = 2 -> <<c[1], c[2] - 1, c[3]>>
      [] m = 3 -> <<c[1], c[2] + 1, c[3]>>
      [] m = 4 -> <<c[1], c[2], c[3] - 1>>
      [] OTHER -> <<c[1], c[2], c[3] + 1>>

\* A bug ADiag could have: the ghost-fluid term of an AIR neighbour taken off
\* whether subcell is set or not.
ADiagTermAirAlways(a, l, c, d, sc, m) ==
    LET q == CellNeighbor(c, m)
    IN  IF ~InDomain(d, q[1], q[2], q[3]) \/ a[q] = "SOLID" THEN DiagScale
        ELSE IF a[q] = "AIR" THEN OverMinEps(l[q], l[c], InvEps6, DiagScale)
        ELSE 0


\* What neighbour m takes off the diagonal, in units of 1/DiagScale.
ADiagTerm(a, l, c, d, sc, m) ==
    LET q == CellNeighbor(c, m)
    IN  IF ~InDomain(d, q[1], q[2], q[3]) \/ a[q] = "SOLID" THEN DiagScale
        ELSE IF a[q] = "AIR" /\ sc = 1 THEN OverMinEps(l[q], l[c], InvEps6, DiagScale)
        ELSE 0

\* float diag = 6.0; if( A->getCell(i,j,k) != FLUID ) return diag; ...
ADiag(a, l, c, d, sc) ==
    IF a[c] # "FLUID" THEN 6 * DiagScale
    ELSE 6 * DiagScale
         - ADiagTerm(a, l, c, d, sc, 0) - ADiagTerm(a, l, c, d, sc, 1)
         - ADiagTerm(a, l, c, d, sc, 2) - ADiagTerm(a, l, c, d, sc, 3)
         - ADiagTerm(a, l, c, d, sc, 4) - ADiagTerm(a, l, c, d, sc, 5)

Square(v) == v * v

\* The body of buildPreconditioner's loop at cell c: the value of e it stores
\* 1/sqrt of, or the cell's old value when it stores nothing.
PreconditionerCell(pc, a, l, c, d, sc, fc) ==
    LET i == c[1]
        j == c[2]
        k == c[3]
        left   == ARef(a, i-1, j, k, i, j, k, d) * PRef(pc, i-1, j, k, d, fc)
        bottom == ARef(a, i, j-1, k, i, j, k, d) * PRef(pc, i, j-1, k, d, fc)
        back   == ARef(a, i, j, k-1, i, j, k, d) * PRef(pc, i, j, k-1, d, fc)
        diag   == ADiag(a, l, c, d, sc)
        e      == diag - DiagScale * (Square(left) + Square(bottom) + Square(back))
    IN  IF a[c] = "FLUID" /\ diag > 0
        THEN (IF 4 * e < diag THEN diag ELSE e)
        ELSE pc[c]

RECURSIVE PreconditionerFrom(_, _, _, _, _, _, _)
PreconditionerFrom(pc, a, l, d, sc, fc, gn) ==
    IF gn >= d[1] * d[2] * d[3] THEN pc
    ELSE LET c == FlatIndex(d, gn)
         IN  PreconditionerFrom(
                 IF c \in Cells(d)
                 THEN [pc EXCEPT ![c] = PreconditionerCell(pc, a, l, c, d, sc, fc)]
                 ELSE pc,
                 a, l, d, sc, fc, gn + 1)

\* buildPreconditioner on the fresh grid "new floatgrid(0.0f)" of solve.
buildPreconditioner(a, l, d, sc, fc) ==
    PreconditionerFrom(ZeroCells(d), a, l, d, sc, fc, 0)

\* A bug xRef could have: a SOLID neighbour read like a FLUID one.
xRefNoReflection(a, l, x, f, p, d, sc) ==
    LET c == <<Min2(Max2(0, p[1]), d[1] - 1), Min2(Max2(0, p[2]), d[2] - 1),
              Min2(Max2(0, p[3]), d[3] - 1)>>
    IN  IF a[c] = "FLUID" \/ a[c] = "SOLID" THEN x[c] * DiagScale
        ELSE IF sc # 0 THEN OverMinEps(l[c], l[f], InvEps6, DiagScale) * x[f]
        ELSE 0

\* Helper for PCG solver: read X with clamped bounds.  f is the cell, p its
\* neighbour; the value is in units of 1/DiagScale.
xRef(a, l, x, f, p, d, sc) ==
    LET c == <<Min2(Max2(0, p[1]), d[1] - 1), Min2(Max2(0, p[2]), d[2] - 1),
              Min2(Max2(0, p[3]), d[3] - 1)>>
    IN  IF a[c] = "FLUID" THEN x[c] * DiagScale
        ELSE IF a[c] = "SOLID" THEN x[f] * DiagScale
        ELSE IF sc # 0 THEN OverMinEps(l[c], l[f], InvEps6, DiagScale) * x[f]
        ELSE 0

\* float n = max(x,y,z); float h = 1.0f/(n*n); result = (6*X - sum of xRef)/h
AxCell(a, l, x, c, d, sc) ==
    IF a[c] = "FLUID"
    THEN (6 * DiagScale * x[c]
          - xRef(a, l, x, c, CellNeighbor(c, 1), d, sc)
          - xRef(a, l, x, c, CellNeighbor(c, 0), d, sc)
          - xRef(a, l, x, c, CellNeighbor(c, 3), d, sc)
          - xRef(a, l, x, c, CellNeighbor(c, 2), d, sc)
          - xRef(a, l, x, c, CellNeighbor(c, 5), d, sc)
          - xRef(a, l, x, c, CellNeighbor(c, 4), d, sc)) * Maxd(d) * Maxd(d)
    ELSE 0

\* Helper for PCG solver: target = AX, on the fresh grid z of
\* solveConjugateGradient; the cells the loop does not reach keep the
\* background 0.
RECURSIVE AxFrom(_, _, _, _, _, _, _)
AxFrom(target, a, l, x, d, sc, gn) ==
    IF gn >= d[1] * d[2] * d[3] THEN target
    ELSE LET c == FlatIndex(d, gn)
         IN  AxFrom(IF c \in Cells(d)
                    THEN [target EXCEPT ![c] = AxCell(a, l, x, c, d, sc)]
                    ELSE target,
                    a, l, x, d, sc, gn + 1)

computeAx(a, l, x, d, sc) == AxFrom(ZeroCells(d), a, l, x, d, sc, 0)

\* target = X + alpha*Y, on the fresh grid r; xg is in pressure quanta, yg in
\* units of 1/DiagScale.
RECURSIVE OpFrom(_, _, _, _, _, _, _)
OpFrom(target, a, xg, yg, alpha, d, gn) ==
    IF gn >= d[1] * d[2] * d[3] THEN target
    ELSE LET c == FlatIndex(d, gn)
         IN  OpFrom(IF c \in Cells(d)
                    THEN [target EXCEPT ![c] =
                              IF a[c] = "FLUID"
                              THEN xg[c] * DiagScale + alpha * yg[c] ELSE 0]
                    ELSE target,
                    a, xg, yg, alpha, d, gn + 1)

op(a, xg, yg, alpha, d) == OpFrom(ZeroCells(d), a, xg, yg, alpha, d, 0)

\* The grid r of solveConjugateGradient when it returns:
\* computeAx(A, L, P, z); op(A, D, z, r, -1.0f).
Residual(a, l, p, dv, d, sc) == op(a, dv, computeAx(a, l, p, d, sc), -1, d)


\* A bug solveConjugateGradient could have: the right-hand side added to the
\* pressure of every cell, of whichever marker.
solveConjugateGradientEverywhere(p, dv) == [c \in DOMAIN p |-> p[c] + dv[c]]

\* solveConjugateGradient computes z = A*P and r = D - z into grids of its own
\* and returns: it writes nothing to the macgrid.
solveConjugateGradient(p, dv) == p

\* ------------------------------------------- SubtractPressureGradient (568-680)

\* if(i>0 && i<x) for the x faces, j and k likewise: the faces between two cells.
InteriorFace(d, f) == AxisIndex(f) > 0 /\ AxisIndex(f) < AxisSize(d, f)

\* pf, the pressure in front of face f
PressureFront(d, sc, l, p, f) ==
    LET cf == FrontCell(f)
        cb == BackCell(f)
    IN  IF sc = 1 /\ l[cf] * l[cb] < 0 /\ ~(l[cf] < 0)
        THEN OverMinEps(l[cf], l[cb], InvEps3, 1) * p[cb]
        ELSE p[cf]

\* pb, the pressure behind face f
PressureBack(d, sc, l, p, f) ==
    LET cf == FrontCell(f)
        cb == BackCell(f)
    IN  IF sc = 1 /\ l[cf] * l[cb] < 0 /\ ~(l[cb] < 0)
        THEN OverMinEps(l[cb], l[cf], InvEps6, 1) * p[cf]
        ELSE p[cb]

\* xval -= (pf-pb)/h, h = 1/maxd
SubtractPressureGradientOp(d, sc, l, p, cur) ==
    [f \in DOMAIN cur |->
        IF InteriorFace(d, f)
        THEN cur[f] - (PressureFront(d, sc, l, p, f) - PressureBack(d, sc, l, p, f)) * Maxd(d)
        ELSE cur[f]]

\* ------------------------------------------------------------------ vectors

\* A glm::vec3 is a triple of integers.
Zero3 == <<0, 0, 0>>
VAdd(a, b) == <<a[1] + b[1], a[2] + b[2], a[3] + b[3]>>
VSub(a, b) == <<a[1] - b[1], a[2] - b[2], a[3] - b[3]>>
VNeg(a) == <<-a[1], -a[2], -a[3]>>
Dot(a, b) == a[1] * b[1] + a[2] * b[2] + a[3] * b[3]

\* A float quotient, rounded towards zero.
Quot(a, b) == IF a >= 0 THEN a \div b ELSE -((-a) \div b)

\* v * num / den
VScale(v, num, den) ==
    <<Quot(v[1] * num, den), Quot(v[2] * num, den), Quot(v[3] * num, den)>>

ISqrt(n) == CHOOSE r \in 0..n : r * r <= n /\ (r + 1) * (r + 1) > n

\* glm::length
Length(v) == ISqrt(Dot(v, v))

\* glm::normalize(v) * len; glm::normalize of the zero vector is NaN, which the
\* callers test for before they use it.
NormalizeTimes(v, len) == VScale(v, len, Length(v))

\* ---------------------------------------------------------------- particles

\* A Particle: m_type, m_p, m_u, m_pt, m_ut, m_t, m_n, m_mass, m_density.
NewParticle(type, p, vel, n) ==
    [type |-> type, p |-> p, u |-> vel, pt |-> p, ut |-> vel, t |-> Zero3,
     n |-> n, mass |-> 1, density |-> 0]

Indices(ps) == 1..Len(ps)
FluidIndices(ps) == {i \in Indices(ps) : ps[i].type = "FLUID"}

\* 1/maxd and 1 - 1/maxd, in position quanta
WallLo == CellUnits
WallHi(d) == (Maxd(d) - 1) * CellUnits

\* float re = 1.5f*m_density/maxd, for the density 0.5 the simulator is built with
Reach == (3 * CellUnits) \div 4

Clamp(v, lo, hi) == Max2(lo, Min2(hi, v))

\* ParticleGrid::Sort: the cell a position falls in when scaled to grid units.
SortCell(d, p) ==
    <<Clamp(p[1] \div CellUnits, 0, d[1] - 1),
      Clamp(p[2] \div CellUnits, 0, d[2] - 1),
      Clamp(p[3] \div CellUnits, 0, d[3] - 1)>>

SortOp(d, ps) == [i \in Indices(ps) |-> SortCell(d, ps[i].p)]

\* ParticleGrid::GetCellNeighbors(cell, vec3(1)): the particles sorted into the
\* cells within one cell of the given one, in particle order.
GetCellNeighbors(pg, cell) ==
    {m \in DOMAIN pg : /\ Abs(pg[m][1] - cell[1]) <= 1
                       /\ Abs(pg[m][2] - cell[2]) <= 1
                       /\ Abs(pg[m][3] - cell[3]) <= 1}

\* ------------------------------------------ StoreTempParticleVelocities (79-90)

StoreTempOne(q) == [q EXCEPT !.pt = q.p, !.ut = q.u]

StoreTempParticleVelocitiesOp(ps) == [i \in Indices(ps) |-> StoreTempOne(ps[i])]

\* ------------------------------------------------ ApplyExternalForces (682-695)

\* m_particles[i]->m_u += externalForces[j]*m_stepsize, for every j; a force is
\* given as the velocity it adds in one step.
RECURSIVE ApplyForcesFrom(_, _, _)
ApplyForcesFrom(vel, fs, j) ==
    IF j > Len(fs) THEN vel ELSE ApplyForcesFrom(VAdd(vel, fs[j]), fs, j + 1)

ApplyExternalForcesOp(ps, fs) ==
    [i \in Indices(ps) |-> [ps[i] EXCEPT !.u = ApplyForcesFrom(ps[i].u, fs, 1)]]

\* ----------------------------- the transfers between particles and the grid
\* (SplatParticlesToMACGrid, SplatMACGridToParticles, InterpolateVelocity,
\* MarkCellTypes, BuildSDF and EnforceBoundaryVelocity are called by the step
\* and defined outside the sources; they follow the specification's words.)

\* Component n of the grid has one more sample along its own axis, and its
\* samples sit half a cell off along the other two.
SampleCount(d, n, a) == d[a] + (IF a = n + 1 THEN 1 ELSE 0)
TwiceCoord(p, n, a) == 2 * p[a] - (IF a = n + 1 THEN 0 ELSE CellUnits)
LoSample(d, p, n, a) ==
    Clamp(TwiceCoord(p, n, a) \div (2 * CellUnits), 0, SampleCount(d, n, a) - 1)
HiSample(d, p, n, a) == Min2(LoSample(d, p, n, a) + 1, SampleCount(d, n, a) - 1)
Fraction(d, p, n, a) ==
    Clamp(TwiceCoord(p, n, a) - LoSample(d, p, n, a) * 2 * CellUnits, 0, 2 * CellUnits)

CornerSample(d, p, n, a, b) ==
    IF b = 0 THEN LoSample(d, p, n, a) ELSE HiSample(d, p, n, a)
CornerWeight(d, p, n, a, b) ==
    IF b = 0 THEN 2 * CellUnits - Fraction(d, p, n, a) ELSE Fraction(d, p, n, a)

CornerTerm(grid, d, p, n, b1, b2, b3) ==
    CornerWeight(d, p, n, 1, b1) * CornerWeight(d, p, n, 2, b2) * CornerWeight(d, p, n, 3, b3)
    * grid[<<n, CornerSample(d, p, n, 1, b1), CornerSample(d, p, n, 2, b2),
             CornerSample(d, p, n, 3, b3)>>]

\* Trilinear interpolation of one component at a position.
InterpolateComponent(grid, d, p, n) ==
    Quot(CornerTerm(grid, d, p, n, 0, 0, 0) + CornerTerm(grid, d, p, n, 0, 0, 1)
         + CornerTerm(grid, d, p, n, 0, 1, 0) + CornerTerm(grid, d, p, n, 0, 1, 1)
         + CornerTerm(grid, d, p, n, 1, 0, 0) + CornerTerm(grid, d, p, n, 1, 0, 1)
         + CornerTerm(grid, d, p, n, 1, 1, 0) + CornerTerm(grid, d, p, n, 1, 1, 1),
         8 * CellUnits * CellUnits * CellUnits)

InterpolateVelocity(p, grid, d) ==
    <<InterpolateComponent(grid, d, p, 0), InterpolateComponent(grid, d, p, 1),
      InterpolateComponent(grid, d, p, 2)>>

\* Every fluid particle's u becomes the interpolation of the grid at its position.
SplatMACGridToParticles(ps, grid, d) ==
    [i \in Indices(ps) |->
        IF ps[i].type = "FLUID"
        THEN [ps[i] EXCEPT !.u = InterpolateVelocity(ps[i].p, grid, d)]
        ELSE ps[i]]

\* The fluid particles sorted into one of the two cells of a face.
FaceParticles(ps, pg, f) ==
    {i \in FluidIndices(ps) : pg[i] = BackCell(f) \/ pg[i] = FrontCell(f)}

RECURSIVE SumComponent(_, _, _, _)
SumComponent(ps, S, n, i) ==
    IF i > Len(ps) THEN 0
    ELSE (IF i \in S THEN ps[i].mass * ps[i].u[n + 1] ELSE 0) + SumComponent(ps, S, n, i + 1)

RECURSIVE SumMass(_, _, _)
SumMass(ps, S, i) ==
    IF i > Len(ps) THEN 0
    ELSE (IF i \in S THEN ps[i].mass ELSE 0) + SumMass(ps, S, i + 1)

\* Each face takes the mass-weighted average of the velocities of the fluid
\* particles within its kernel, here the two cells it separates; a face with no
\* fluid particle near it takes zero.
SplatParticlesToMACGridOp(pg, ps, d) ==
    [f \in Faces(d) |->
        LET S == FaceParticles(ps, pg, f)
        IN  IF S = {} THEN 0 ELSE Quot(SumComponent(ps, S, f[1], 1), SumMass(ps, S, 1))]

\* A cell inside the solid geometry is SOLID, a cell holding a fluid particle
\* FLUID, any other AIR.
MarkCellTypesOp(ps, pg, d, solid) ==
    [c \in Cells(d) |->
        IF c \in solid THEN "SOLID"
        ELSE IF \E i \in FluidIndices(ps) : pg[i] = c THEN "FLUID"
        ELSE "AIR"]

\* The liquid level set: negative in the cells that hold a fluid particle.
BuildSDF(ps, pg, d) ==
    [c \in Cells(d) |-> IF \E i \in FluidIndices(ps) : pg[i] = c THEN -MaxL ELSE MaxL]

FaceIs(d, a, f, m1, m2) ==
    /\ InteriorFace(d, f)
    /\ a[BackCell(f)] = m1
    /\ a[FrontCell(f)] = m2

\* A face on the domain boundary, or between a FLUID and a SOLID cell, gets a
\* zero normal velocity.
EnforceBoundaryVelocityOp(d, a, cur) ==
    [f \in DOMAIN cur |->
        IF \/ ~InteriorFace(d, f)
           \/ FaceIs(d, a, f, "FLUID", "SOLID")
           \/ FaceIs(d, a, f, "SOLID", "FLUID")
        THEN 0 ELSE cur[f]]

\* ----------------------------------------------------- ComputeDensity (697-733)

\* position.x = (int)max(0.0f, min((int)maxd-1.0f, (int)maxd*position.x))
DensityCell(d, p) ==
    <<Clamp(p[1] \div CellUnits, 0, Maxd(d) - 1),
      Clamp(p[2] \div CellUnits, 0, Maxd(d) - 1),
      Clamp(p[3] \div CellUnits, 0, Maxd(d) - 1)>>

\* 4.0f*m_density/maxd
SmoothRadius == 2 * CellUnits

\* mathCore::Smooth (defined outside the sources): a kernel that falls from one
\* at distance zero to nothing at the radius; in units of 1/radius^2.
Smooth(sqd, h) == Max2(0, h * h - sqd)

RECURSIVE WeightSum(_, _, _, _)
WeightSum(ps, N, i, m) ==
    IF m > Len(ps) THEN 0
    ELSE (IF m \in N
          THEN ps[m].mass * Smooth(Dot(VSub(ps[m].p, ps[i].p), VSub(ps[m].p, ps[i].p)),
                                   SmoothRadius)
          ELSE 0) + WeightSum(ps, N, i, m + 1)

\* 1.0f, in the units of a weight and of a density.
OneDensity == SmoothRadius * SmoothRadius

\* m_density is 1.0 for a SOLID particle and weightsum/m_max_density for any
\* other.
ComputeDensityOp(ps, pg, d, md) ==
    [i \in Indices(ps) |->
        IF ps[i].type = "SOLID"
        THEN [ps[i] EXCEPT !.density = OneDensity]
        ELSE [ps[i] EXCEPT !.density =
                 Quot(WeightSum(ps, GetCellNeighbors(pg, DensityCell(d, ps[i].p)), i, 1)
                          * OneDensity, md)]]

\* ------------------------------------------------------------- Init (42-77)

\* The side of the block of temporary particles Init fills (10 in the code).
CalibrationSide == 3

\* float h = m_density/maxd: a quarter of the smoothing radius 4*m_density/maxd.
CalibrationSpacing == SmoothRadius \div 4

\* p->m_p = (glm::vec3(i,j,k) + glm::vec3(0.5f))*h; m_type = FLUID; m_mass = 1,
\* for the n-th iteration of the three nested loops (n from 0, k innermost).
CalibrationParticle(n) ==
    LET i == n \div (CalibrationSide * CalibrationSide)
        j == (n \div CalibrationSide) % CalibrationSide
        k == n % CalibrationSide
    IN  NewParticle("FLUID",
                    <<((2 * i + 1) * CalibrationSpacing) \div 2,
                      ((2 * j + 1) * CalibrationSpacing) \div 2,
                      ((2 * k + 1) * CalibrationSpacing) \div 2>>,
                    Zero3, Zero3)

CalibrationParticles ==
    [n \in 1..(CalibrationSide * CalibrationSide * CalibrationSide) |->
        CalibrationParticle(n - 1)]

\* A bug Init could have: the densities summed, as the comment of line 65 says.
RECURSIVE SumDensityFrom(_, _, _)
SumDensityFrom(ps, n, acc) ==
    IF n > Len(ps) THEN acc
    ELSE SumDensityFrom(ps, n + 1, acc + ps[n].density)

\* m_max_density = glm::max(m_max_density, p->m_density), from particle n on.
RECURSIVE MaxDensityFrom(_, _, _)
MaxDensityFrom(ps, n, acc) ==
    IF n > Len(ps) THEN acc
    ELSE MaxDensityFrom(ps, n + 1, Max2(acc, ps[n].density))

\* Lines 50-70 on the particle list ps: the temporary particles are appended,
\* sorted, given their density with m_max_density = 1.0; m_max_density starts
\* again at 0 and takes the largest density.
Calibrate(d, ps) ==
    LET temp == ps \o CalibrationParticles
    IN  MaxDensityFrom(ComputeDensityOp(temp, SortOp(d, temp), d, OneDensity), 1, 0)

\* ------------------------------------------------------- SolvePicFlip (287-322)

\* m_picflipratio is a number of twentieths.
RatioUnits == 20

SaveVelocity(ps) == [i \in Indices(ps) |-> [ps[i] EXCEPT !.t = ps[i].u]]

\* m_t = m_u + m_t
SetFlipVelocity(ps) == [i \in Indices(ps) |-> [ps[i] EXCEPT !.t = VAdd(ps[i].u, ps[i].t)]]

\* A bug SolvePicFlip could have: the two weights the wrong way round.
BlendSwapped(alpha, pic, flip) ==
    VAdd(VScale(pic, alpha, RatioUnits), VScale(flip, RatioUnits - alpha, RatioUnits))

\* (1.0f-m_picflipratio)*pic + m_picflipratio*flip
Blend(alpha, pic, flip) ==
    VAdd(VScale(pic, RatioUnits - alpha, RatioUnits), VScale(flip, alpha, RatioUnits))

Combine(ps, alpha) ==
    [i \in Indices(ps) |-> [ps[i] EXCEPT !.u = Blend(alpha, ps[i].u, ps[i].t)]]

SolvePicFlipOp(ps, prev, cur, d, alpha) ==
    LET saved == SaveVelocity(ps)
        delta == SplatMACGridToParticles(saved, prev, d)
        flip == SetFlipVelocity(delta)
        pic == SplatMACGridToParticles(flip, cur, d)
    IN  Combine(pic, alpha)

\* ---------------------------------------------------- AdvectParticles (229-285)

\* m_stepsize, in steps
Stepsize == 1

\* m_p += m_stepsize*InterpolateVelocity(m_p, &m_mgrid), for the FLUID particles
MoveParticles(ps, grid, d) ==
    [i \in Indices(ps) |->
        IF ps[i].type = "FLUID"
        THEN [ps[i] EXCEPT !.p = VAdd(ps[i].p,
                                      VScale(InterpolateVelocity(ps[i].p, grid, d), Stepsize, 1))]
        ELSE ps[i]]

\* glm::max(vec3(r), glm::min(vec3(1.0f-r), m_p)), r = 1/maxd
ClampToWalls(d, p) ==
    <<Clamp(p[1], WallLo, WallHi(d)), Clamp(p[2], WallLo, WallHi(d)),
      Clamp(p[3], WallLo, WallHi(d))>>

\* unsigned int i = glm::min(x-1.0f, p->m_p.x*maxd), and j and k alike
AdvectCell(d, p) ==
    <<Min2(d[1] - 1, p[1] \div CellUnits), Min2(d[2] - 1, p[2] \div CellUnits),
      Min2(d[3] - 1, p[3] \div CellUnits)>>

\* The normal the push uses, as a vector over a divisor: the solid particle's
\* m_n, or the direction from it when m_n is zero and the distance is not.
PushVector(q, np) ==
    IF Length(np.n) = 0 /\ Length(VSub(q.p, np.p)) # 0 THEN VSub(q.p, np.p) ELSE np.n
PushDivisor(q, np) ==
    IF Length(np.n) = 0 /\ Length(VSub(q.p, np.p)) # 0 THEN Length(VSub(q.p, np.p)) ELSE 1

\* One neighbour of the inner loop (266-280).
PushOne(q, np) ==
    LET dist == Length(VSub(q.p, np.p))
        nv == PushVector(q, np)
        nd == PushDivisor(q, np)
    IN  IF np.type = "SOLID" /\ dist < Reach
        THEN [q EXCEPT !.p = VAdd(q.p, VScale(nv, Reach - dist, nd)),
                       !.u = VSub(q.u, VScale(nv, Dot(q.u, nv), nd * nd))]
        ELSE q

RECURSIVE PushFrom(_, _, _, _)
PushFrom(q, ps, N, m) ==
    IF m > Len(ps) THEN q
    ELSE PushFrom(IF m \in N THEN PushOne(q, ps[m]) ELSE q, ps, N, m + 1)

\* One iteration of the second loop (252-282): the clamp, then the neighbours.
ConstrainOne(ps, pg, d, i) ==
    IF ps[i].type = "FLUID"
    THEN LET q == [ps[i] EXCEPT !.p = ClampToWalls(d, ps[i].p)]
         IN  PushFrom(q, ps, GetCellNeighbors(pg, AdvectCell(d, q.p)), 1)
    ELSE ps[i]

RECURSIVE ConstrainFrom(_, _, _, _)
ConstrainFrom(ps, pg, d, i) ==
    IF i > Len(ps) THEN ps
    ELSE ConstrainFrom([ps EXCEPT ![i] = ConstrainOne(ps, pg, d, i)], pg, d, i + 1)

AdvectParticlesOp(ps, grid, d) ==
    LET moved == MoveParticles(ps, grid, d)
    IN  ConstrainFrom(moved, SortOp(d, moved), d, 1)

\* ------------------------------------------------------- the scene's answers
\* (CheckPointInsideSolidGeom, IntersectSolidGeoms and ProjectPointsToSurface
\* belong to the scene, which is outside the sources: each answer is any value
\* of a small set.)

\* The displacements ProjectPointsToSurface gives a particle.
Projections == {Zero3, <<CellUnits \div 2, 0, 0>>, <<0, -1, 0>>}

\* The distances from a ray's origin to the point IntersectSolidGeoms returns.
HitDistances == {1, CellUnits}

HitNormals == {<<-1, 0, 0>>, <<0, 1, 0>>}

NoAnswer == [hit |-> FALSE, dist |-> 1, normal |-> <<-1, 0, 0>>, inside |-> FALSE]

\* What the scene tells CheckParticleSolidConstraints about one particle.
Answers ==
    {NoAnswer, [NoAnswer EXCEPT !.inside = TRUE]}
    \cup {[hit |-> TRUE, dist |-> dd, normal |-> n, inside |-> b] :
             dd \in HitDistances, n \in HitNormals, b \in BOOLEAN}

\* ------------------------------------- AdjustParticlesStuckInSolids (130-181)

\* float raynulltest = glm::length(r.m_direction); if(raynulltest==raynulltest):
\* the normalised direction is a number unless p - pt is the zero vector.
RayDefined(q) == VSub(q.p, q.pt) # Zero3

\* A bug AdjustParticlesStuckInSolids could have: the ray cast from the projected
\* point back towards the position the particle had.
UnstickOneFromSurface(q, proj, nearest) ==
    LET projected == [q EXCEPT !.pt = q.p, !.p = VAdd(q.p, proj)]
        v == VSub(projected.pt, projected.p)
        d == Length(v)
    IN  IF RayDefined(projected)
        THEN [projected EXCEPT
                 !.p = VAdd(projected.p, VScale(v, 105 * nearest, 100 * d)),
                 !.u = NormalizeTimes(v, d)]
        ELSE projected

\* A particle the check found inside a solid: m_pt = m_p (158), the projection
\* (163), then the ray from pt towards p (166-178).
UnstickOne(q, proj, nearest) ==
    LET projected == [q EXCEPT !.pt = q.p, !.p = VAdd(q.p, proj)]
        v == VSub(projected.p, projected.pt)
        d == Length(v)
    IN  IF RayDefined(projected)
        THEN [projected EXCEPT
                 !.p = VAdd(projected.pt, VScale(v, 105 * nearest, 100 * d)),
                 !.u = NormalizeTimes(v, d)]
        ELSE projected

AdjustParticlesStuckInSolidsOp(ps, inside, proj, nearest) ==
    [i \in Indices(ps) |->
        IF i \in inside THEN UnstickOne(ps[i], proj[i], nearest[i]) ELSE ps[i]]

\* The stuck particles a ray is cast for.
UnstickRayCasts(ps, inside, proj) ==
    {i \in inside : RayDefined([ps[i] EXCEPT !.pt = ps[i].p, !.p = VAdd(ps[i].p, proj[i])])}

\* ------------------------------------ CheckParticleSolidConstraints (183-227)

\* 2.0f*dot(r.m_direction, hit.m_normal)*hit.m_normal - normalize(r.m_direction),
\* times the length of p - pt
Reflected(v, n) == VSub(VScale(n, 2 * Dot(v, n), 1), v)

Bounce(q, ans) ==
    LET v == VSub(q.p, q.pt)
        d == Length(v)
    IN  IF ans.hit /\ ans.dist < d
        THEN [q EXCEPT !.p = VAdd(q.pt, VScale(v, 90 * ans.dist, 100 * d)),
                       !.u = NormalizeTimes(Reflected(v, ans.normal), Length(q.ut))]
        ELSE q

\* m_u = -normalize(r.m_direction) * u_dir; m_p = m_pt + m_u * m_stepsize
BackOff(q, v) ==
    LET back == VNeg(NormalizeTimes(v, Length(q.ut)))
    IN  [q EXCEPT !.u = back, !.p = VAdd(q.pt, VScale(back, Stepsize, 1))]

\* One iteration (190-223).
CheckOne(q, ans) ==
    IF q.type # "FLUID" \/ ~RayDefined(q) THEN q
    ELSE IF ans.inside THEN BackOff(Bounce(q, ans), VSub(q.p, q.pt))
    ELSE Bounce(q, ans)

CheckParticleSolidConstraintsOp(ps, ans) ==
    [i \in Indices(ps) |-> CheckOne(ps[i], ans[i])]

\* A bug CheckParticleSolidConstraints could have: a ray is cast for every
\* fluid particle, moved or not.
CheckRayCastsAll(ps) == FluidIndices(ps)

\* The particles the phase casts a ray for, and then queries the scene about.
CheckRayCasts(ps) == {i \in FluidIndices(ps) : RayDefined(ps[i])}

\* ------------------------------------------- the slots the parallel loops touch

\* A slot is one field of one particle or one sample of one grid.  An access is
\* the slots one iteration reads and the slots it writes.
Slots(name, S) == {<<name, x>> : x \in S}

\* Two iterations of a loop touch the same slot and one of them writes it.
Races(Its, Acc(_)) ==
    \E x \in Its :
        LET written == Acc(x).w
        IN  /\ written # {}
            /\ \E y \in Its \ {x} :
                   LET other == Acc(y)
                   IN  written \cap (other.w \cup other.r) # {}

\* 82-89
StoreTempAccess(i) ==
    [r |-> {<<"m_p", i>>, <<"m_u", i>>}, w |-> {<<"m_pt", i>>, <<"m_ut", i>>}]

\* 136-151
UnstickCheckAccess(ps, i) ==
    IF ps[i].type = "FLUID"
    THEN [r |-> {<<"m_type", i>>, <<"m_p", i>>},
          w |-> {<<"particleInSolidChecks", i>>, <<"m_temp", i>>, <<"m_temp2", i>>}]
    ELSE [r |-> {<<"m_type", i>>}, w |-> {<<"particleInSolidChecks", i>>}]

\* 187-226
CheckAccess(ps, i) ==
    IF ps[i].type = "FLUID"
    THEN [r |-> {<<"m_type", i>>, <<"m_p", i>>, <<"m_pt", i>>, <<"m_ut", i>>},
          w |-> {<<"m_p", i>>, <<"m_u", i>>}]
    ELSE [r |-> {<<"m_type", i>>}, w |-> {}]

\* 236-246
MoveAccess(ps, d, i) ==
    IF ps[i].type = "FLUID"
    THEN [r |-> {<<"m_type", i>>, <<"m_p", i>>} \cup Slots("u", Faces(d)),
          w |-> {<<"m_p", i>>}]
    ELSE [r |-> {<<"m_type", i>>}, w |-> {}]

\* A bug AdvectParticles could have: the position of every neighbour is read
\* before its type is looked at.
ConstrainReadsAll(ps, N) == Slots("m_type", N) \cup Slots("m_p", N) \cup Slots("m_n", N)

\* The slots of its neighbours an iteration of the second loop reads (266-280).
ConstrainReads(ps, N) ==
    Slots("m_type", N)
    \cup Slots("m_p", {m \in N : ps[m].type = "SOLID"})
    \cup Slots("m_n", {m \in N : ps[m].type = "SOLID"})

\* 250-284
ConstrainAccess(ps, pg, d, i) ==
    IF ps[i].type = "FLUID"
    THEN [r |-> {<<"m_type", i>>, <<"m_p", i>>, <<"m_u", i>>}
                \cup ConstrainReads(ps, GetCellNeighbors(pg,
                                            AdvectCell(d, ClampToWalls(d, ps[i].p)))),
          w |-> {<<"m_p", i>>, <<"m_u", i>>}]
    ELSE [r |-> {<<"m_type", i>>}, w |-> {}]

\* 291-297, 302-308, 314-321
SaveAccess(i) == [r |-> {<<"m_u", i>>}, w |-> {<<"m_t", i>>}]
FlipAccess(i) == [r |-> {<<"m_u", i>>, <<"m_t", i>>}, w |-> {<<"m_t", i>>}]
CombineAccess(i) == [r |-> {<<"m_u", i>>, <<"m_t", i>>}, w |-> {<<"m_u", i>>}]

\* 330-362 and 371-409
StoreAccess(f) == [r |-> {<<"u", f>>}, w |-> {<<"uprev", f>>}]
SubtractAccess(f) == [r |-> {<<"u", f>>, <<"uprev", f>>}, w |-> {<<"uprev", f>>}]

\* 420-437
DivergenceAccess(c) ==
    [r |-> Slots("u", {<<0, c[1] + 1, c[2], c[3]>>, <<0, c[1], c[2], c[3]>>,
                       <<1, c[1], c[2] + 1, c[3]>>, <<1, c[1], c[2], c[3]>>,
                       <<2, c[1], c[2], c[3] + 1>>, <<2, c[1], c[2], c[3]>>}),
     w |-> {<<"D", c>>}]

\* 576-679
GradientAccess(d, f) ==
    IF InteriorFace(d, f)
    THEN [r |-> Slots("P", {FrontCell(f), BackCell(f)})
                \cup Slots("L", {FrontCell(f), BackCell(f)}) \cup {<<"u", f>>},
          w |-> {<<"u", f>>}]
    ELSE [r |-> {}, w |-> {}]

\* 465-508
MarkAccess(d, f) ==
    [r |-> Slots("A", {c \in {FrontCell(f), BackCell(f)} : c \in Cells(d)}),
     w |-> {<<"mark", f>>, <<"wallmark", f>>}]

\* 511-559
ExtrapolateAccess(d, a, f) ==
    [r |-> {<<"mark", f>>, <<"wallmark", f>>}
           \cup (IF ~Mark(d, a, f) /\ Wallmark(d, a, f)
                 THEN Slots("mark", {q \in {FaceNeighbor(f, qk) : qk \in 0..5} :
                                        NeighborInRange(d, q)})
                      \cup Slots("u", ReadNeighbors(d, a, f))
                 ELSE {}),
     w |-> IF ExtrapolateWrites(d, a, f) THEN {<<"u", f>>} ELSE {}]

\* 686-694
ForcesAccess(i) == [r |-> {<<"m_u", i>>}, w |-> {<<"m_u", i>>}]

\* 702-732
DensityAccess(ps, pg, d, i) ==
    IF ps[i].type = "SOLID"
    THEN [r |-> {<<"m_type", i>>}, w |-> {<<"m_density", i>>}]
    ELSE [r |-> {<<"m_type", i>>, <<"m_p", i>>}
                \cup Slots("m_p", GetCellNeighbors(pg, DensityCell(d, ps[i].p)))
                \cup Slots("m_mass", GetCellNeighbors(pg, DensityCell(d, ps[i].p))),
          w |-> {<<"m_density", i>>}]

\* ------------------------------------------------------------------ phases

\* A bug Step could have: the constraints are checked once, and
\* ResampleParticles is the last phase before the export.
StepPhasesOneCheck ==
    <<"GenerateParticles", "BuildSolidGeomLevelSet", "AdjustParticlesStuckInSolids",
      "StoreTempParticleVelocities", "Sort", "ComputeDensity", "ApplyExternalForces",
      "SplatParticlesToMACGrid", "MarkCellTypes", "StorePreviousGrid",
      "EnforceBoundaryVelocity", "Project", "EnforceBoundaryVelocity",
      "ExtrapolateVelocity", "SubtractPreviousGrid", "SolvePicFlip", "AdvectParticles",
      "CheckParticleSolidConstraints", "StoreTempParticleVelocities",
      "ResampleParticles", "ExportParticles">>

\* A bug Step could have: the density computed before the particles are sorted.
StepPhasesUnsorted ==
    <<"GenerateParticles", "BuildSolidGeomLevelSet", "AdjustParticlesStuckInSolids",
      "StoreTempParticleVelocities", "ComputeDensity", "Sort", "ApplyExternalForces",
      "SplatParticlesToMACGrid", "MarkCellTypes", "StorePreviousGrid",
      "EnforceBoundaryVelocity", "Project", "EnforceBoundaryVelocity",
      "ExtrapolateVelocity", "SubtractPreviousGrid", "SolvePicFlip", "AdvectParticles",
      "CheckParticleSolidConstraints", "StoreTempParticleVelocities",
      "ResampleParticles", "CheckParticleSolidConstraints", "ExportParticles">>

\* The calls of Step, lines 98-123, and the export of 125-127.
StepPhases ==
    <<"GenerateParticles", "BuildSolidGeomLevelSet", "AdjustParticlesStuckInSolids",
      "StoreTempParticleVelocities", "Sort", "ComputeDensity", "ApplyExternalForces",
      "SplatParticlesToMACGrid", "MarkCellTypes", "StorePreviousGrid",
      "EnforceBoundaryVelocity", "Project", "EnforceBoundaryVelocity",
      "ExtrapolateVelocity", "SubtractPreviousGrid", "SolvePicFlip", "AdvectParticles",
      "CheckParticleSolidConstraints", "StoreTempParticleVelocities",
      "ResampleParticles", "CheckParticleSolidConstraints", "ExportParticles">>

\* A phase runs when it is the next one of the call in progress.
Begin(phase) == todo # <<>> /\ Head(todo) = phase

Snapshot == [A |-> A, u |-> u, uprev |-> uprev, P |-> P, D |-> D, particles |-> particles]

NoQueries == [inside |-> {}, found |-> {}, projected |-> <<>>, rays |-> {}, dist |-> <<>>,
              generated |-> <<>>]

\* The phase returns: the call moves on to the next one.
Advance(phase) ==
    /\ todo' = Tail(todo)
    /\ trace' = Append(trace, phase)
    /\ before' = Snapshot

\* The steps a run takes.
MaxFrames == 1

\* Step is called: m_frame++ (93), then the phases.
Step ==
    /\ todo = <<>>
    /\ frame < MaxFrames
    /\ frame' = frame + 1
    /\ todo' = StepPhases
    /\ trace' = <<>>
    /\ before' = Snapshot
    /\ sceneLog' = NoQueries
    /\ UNCHANGED <<cfgVars, gridVars, partVars, budget, race>>

\* The particles the scene emits in a frame: none, or one fluid particle at the
\* lower wall.
Emitted ==
    {<<>>, <<NewParticle("FLUID", <<WallLo, WallLo, WallLo>>, <<1, 0, 0>>, Zero3)>>}

\* The most particles a run holds.
MaxParticles == 2

\* The run has room for the particles emitted.
EmitFits(ps, new) == Len(ps) + Len(new) <= MaxParticles

\* m_scene->GenerateParticles(m_particles, m_dimensions, m_density, m_pgrid, m_frame)
GenerateParticles ==
    /\ Begin("GenerateParticles")
    /\ \E new \in Emitted :
          /\ EmitFits(particles, new)
          /\ particles' = particles \o new
    /\ UNCHANGED <<cfgVars, gridVars, pgrid, frame, sceneVars, race>>
    /\ Advance("GenerateParticles")

\* m_scene->BuildSolidGeomLevelSet(m_frame): the scene's own state.
BuildSolidGeomLevelSet ==
    /\ Begin("BuildSolidGeomLevelSet")
    /\ UNCHANGED <<cfgVars, gridVars, partVars, frame, sceneVars, race>>
    /\ Advance("BuildSolidGeomLevelSet")

\* The sets of fluid particles CheckPointInsideSolidGeom can find inside a solid.
StuckChoices(ps, left) == {S \in SUBSET FluidIndices(ps) : Cardinality(S) <= left}

AdjustParticlesStuckInSolids ==
    /\ Begin("AdjustParticlesStuckInSolids")
    /\ \E inside \in StuckChoices(particles, budget) :
          /\ \E proj \in [inside -> Projections], nearest \in [inside -> HitDistances] :
                /\ particles' = AdjustParticlesStuckInSolidsOp(particles, inside, proj, nearest)
                /\ sceneLog' = [inside |-> FluidIndices(particles), found |-> inside,
                                projected |-> [i \in inside |-> VAdd(particles[i].p, proj[i])],
                                rays |-> UnstickRayCasts(particles, inside, proj),
                                dist |-> [i \in UnstickRayCasts(particles, inside, proj)
                                              |-> nearest[i]],
                                generated |-> <<>>]
          /\ budget' = budget - Cardinality(inside)
    /\ race' = (race \/ Races(Indices(particles), LAMBDA i : UnstickCheckAccess(particles, i)))
    /\ UNCHANGED <<cfgVars, gridVars, pgrid, frame>>
    /\ Advance("AdjustParticlesStuckInSolids")

StoreTempParticleVelocities ==
    /\ Begin("StoreTempParticleVelocities")
    /\ particles' = StoreTempParticleVelocitiesOp(particles)
    /\ race' = (race \/ Races(Indices(particles), StoreTempAccess))
    /\ UNCHANGED <<cfgVars, gridVars, pgrid, frame, sceneVars>>
    /\ Advance("StoreTempParticleVelocities")

\* m_pgrid->Sort(m_particles)
Sort ==
    /\ Begin("Sort")
    /\ pgrid' = SortOp(dims, particles)
    /\ UNCHANGED <<cfgVars, gridVars, particles, frame, sceneVars, race>>
    /\ Advance("Sort")

ComputeDensity ==
    /\ Begin("ComputeDensity")
    /\ particles' = ComputeDensityOp(particles, pgrid, dims, maxDensity)
    /\ race' = (race \/ Races(Indices(particles),
                              LAMBDA i : DensityAccess(particles, pgrid, dims, i)))
    /\ UNCHANGED <<cfgVars, gridVars, pgrid, frame, sceneVars>>
    /\ Advance("ComputeDensity")

ApplyExternalForces ==
    /\ Begin("ApplyExternalForces")
    /\ particles' = ApplyExternalForcesOp(particles, forces)
    /\ race' = (race \/ Races(Indices(particles), ForcesAccess))
    /\ UNCHANGED <<cfgVars, gridVars, pgrid, frame, sceneVars>>
    /\ Advance("ApplyExternalForces")

SplatParticlesToMACGrid ==
    /\ Begin("SplatParticlesToMACGrid")
    /\ u' = SplatParticlesToMACGridOp(pgrid, particles, dims)
    /\ UNCHANGED <<cfgVars, A, L, P, D, uprev, precon, resid, partVars, frame, sceneVars, race>>
    /\ Advance("SplatParticlesToMACGrid")

MarkCellTypes ==
    /\ Begin("MarkCellTypes")
    /\ A' = MarkCellTypesOp(particles, pgrid, dims, solidCells)
    /\ UNCHANGED <<cfgVars, L, u, P, D, uprev, precon, resid, partVars, frame, sceneVars, race>>
    /\ Advance("MarkCellTypes")

StorePreviousGrid ==
    /\ Begin("StorePreviousGrid")
    /\ uprev' = StorePreviousGridOp(dims, u, uprev)
    /\ race' = (race \/ Races(StoreXLoop(dims) \cup StoreYLoop(dims) \cup StoreZLoop(dims),
                              StoreAccess))
    /\ UNCHANGED <<cfgVars, A, L, u, P, D, precon, resid, partVars, frame, sceneVars>>
    /\ Advance("StorePreviousGrid")

EnforceBoundaryVelocity ==
    /\ Begin("EnforceBoundaryVelocity")
    /\ u' = EnforceBoundaryVelocityOp(dims, A, u)
    /\ UNCHANGED <<cfgVars, A, L, P, D, uprev, precon, resid, partVars, frame, sceneVars, race>>
    /\ Advance("EnforceBoundaryVelocity")

SubtractPreviousGrid ==
    /\ Begin("SubtractPreviousGrid")
    /\ uprev' = SubtractPreviousGridOp(dims, u, uprev)
    /\ race' = (race \/ Races(SubtractXLoop(dims) \cup SubtractYLoop(dims)
                              \cup SubtractZLoop(dims), SubtractAccess))
    /\ UNCHANGED <<cfgVars, A, L, u, P, D, precon, resid, partVars, frame, sceneVars>>
    /\ Advance("SubtractPreviousGrid")

ExtrapolateVelocity ==
    /\ Begin("ExtrapolateVelocity")
    /\ u' = ExtrapolateVelocityOp(dims, A, u)
    /\ race' = (race \/ Races(Faces(dims), LAMBDA f : MarkAccess(dims, f))
                     \/ Races(Faces(dims), LAMBDA f : ExtrapolateAccess(dims, A, f)))
    /\ UNCHANGED <<cfgVars, A, L, P, D, uprev, precon, resid, partVars, frame, sceneVars>>
    /\ Advance("ExtrapolateVelocity")

\* solve(mgrid, subcell): flipGrid(D), buildPreconditioner, solveConjugateGradient,
\* delete preconditioner.
Solve ==
    /\ Begin("Solve")
    /\ D' = flipGrid(D, dims)
    /\ precon' = buildPreconditioner(A, L, dims, subcell, fluidCode)
    /\ P' = solveConjugateGradient(P, D')
    /\ resid' = Residual(A, L, P, D', dims, subcell)
    /\ UNCHANGED <<cfgVars, A, L, u, uprev, partVars, frame, sceneVars, race>>
    /\ Advance("Solve")

\* Project: the divergence loop, BuildSDF, Solve, SubtractPressureGradient.  The
\* preconditioner is solve's own grid and is deleted before solve returns.
Project ==
    /\ Begin("Project")
    /\ L' = BuildSDF(particles, pgrid, dims)
    /\ D' = flipGrid(ComputeDivergence(dims, u), dims)
    /\ P' = solveConjugateGradient(P, D')
    /\ u' = SubtractPressureGradientOp(dims, subcell, L', P', u)
    /\ race' = (race \/ Races(Cells(dims), DivergenceAccess)
                     \/ Races(Faces(dims), LAMBDA f : GradientAccess(dims, f)))
    /\ UNCHANGED <<cfgVars, A, uprev, precon, resid, partVars, frame, sceneVars>>
    /\ Advance("Project")

SolvePicFlip ==
    /\ Begin("SolvePicFlip")
    /\ particles' = SolvePicFlipOp(particles, uprev, u, dims, picflipratio)
    /\ race' = (race \/ Races(Indices(particles), SaveAccess)
                     \/ Races(Indices(particles), FlipAccess)
                     \/ Races(Indices(particles), CombineAccess))
    /\ UNCHANGED <<cfgVars, gridVars, pgrid, frame, sceneVars>>
    /\ Advance("SolvePicFlip")

AdvectParticles ==
    /\ Begin("AdvectParticles")
    /\ particles' = AdvectParticlesOp(particles, u, dims)
    /\ pgrid' = SortOp(dims, MoveParticles(particles, u, dims))
    /\ race' = (race \/ Races(Indices(particles), LAMBDA i : MoveAccess(particles, dims, i))
                     \/ Races(Indices(particles),
                              LAMBDA i : ConstrainAccess(MoveParticles(particles, u, dims),
                                                         pgrid', dims, i)))
    /\ UNCHANGED <<cfgVars, gridVars, frame, sceneVars>>
    /\ Advance("AdvectParticles")

\* The answers of the scene to the particles of one call: a particle with no
\* ray is not asked about.
CheckAnswers(ps, left) ==
    {ans \in [Indices(ps) -> Answers] :
        /\ \A i \in Indices(ps) \ CheckRayCasts(ps) : ans[i] = NoAnswer
        /\ Cardinality({i \in Indices(ps) : ans[i] # NoAnswer}) <= left}

CheckParticleSolidConstraints ==
    /\ Begin("CheckParticleSolidConstraints")
    /\ \E ans \in CheckAnswers(particles, budget) :
          /\ particles' = CheckParticleSolidConstraintsOp(particles, ans)
          /\ budget' = budget - Cardinality({i \in Indices(particles) : ans[i] # NoAnswer})
    /\ sceneLog' = [inside |-> CheckRayCasts(particles), found |-> {},
                    projected |-> <<>>, rays |-> CheckRayCasts(particles), dist |-> <<>>,
                    generated |-> <<>>]
    /\ race' = (race \/ Races(Indices(particles), LAMBDA i : CheckAccess(particles, i)))
    /\ UNCHANGED <<cfgVars, gridVars, pgrid, frame>>
    /\ Advance("CheckParticleSolidConstraints")

\* The displacement ResampleParticles gives a particle it moves.
ResampleJitter == <<1, 0, 0>>

\* What ResampleParticles (outside the sources) can leave: the particles as they
\* are, the first fluid particle moved, or the last particle culled when fluid.
Resampled(ps) ==
    {ps}
    \cup {[ps EXCEPT ![i].p = VAdd(ps[i].p, ResampleJitter)] :
             i \in {j \in FluidIndices(ps) : \A m \in FluidIndices(ps) : j <= m}}
    \cup (IF ps # <<>> /\ ps[Len(ps)].type = "FLUID"
          THEN {SubSeq(ps, 1, Len(ps) - 1)} ELSE {})

ResampleParticles ==
    /\ Begin("ResampleParticles")
    /\ particles' \in Resampled(particles)
    /\ pgrid' = SortOp(dims, particles')
    /\ UNCHANGED <<cfgVars, gridVars, frame, sceneVars, race>>
    /\ Advance("ResampleParticles")

\* if(saveVDB || saveOBJ || savePARTIO) m_scene->ExportParticles(...); then Step
\* returns.  The trace records which way the test went.
ExportParticles ==
    /\ Begin("ExportParticles")
    /\ \E save \in BOOLEAN :
          trace' = Append(trace, IF save THEN "ExportParticles" ELSE "NoExport")
    /\ todo' = Tail(todo)
    /\ before' = Snapshot
    /\ UNCHANGED <<cfgVars, gridVars, partVars, frame, sceneVars, race>>

\* -------------------------------------------------------------- input fields

Vels == (-MaxVel)..MaxVel

\* Face fields with at most n faces off zero.
RECURSIVE SparseFields(_, _)
SparseFields(d, n) ==
    IF n = 0 THEN {ZeroFaces(d)}
    ELSE {[g EXCEPT ![f] = v] : g \in SparseFields(d, n - 1), f \in Faces(d), v \in Vels}

\* A field with a different value on neighbouring faces.
DenseField(d, s) ==
    [f \in Faces(d) |-> (((f[1] + f[2] + 2 * f[3] + 3 * f[4]) * s) % (2 * MaxVel + 1)) - MaxVel]

\* The face fields the grid operations are run on.
InputFields(d) == SparseFields(d, 1) \cup {DenseField(d, s) : s \in 1..2}

AllMarkers(d) == [Cells(d) -> Markers]

\* The grid as CreateMacgrid leaves it: the level set outside the liquid, the
\* pressure zero.
InitGrid(d) ==
    /\ dims = d
    /\ L = [c \in Cells(d) |-> MaxL]
    /\ P = ZeroCells(d)
    /\ D = ZeroCells(d)
    /\ precon = ZeroCells(d)
    /\ resid = ZeroCells(d)

\* No particles, no solid geometry, no call of Step.
InitNoParticles ==
    /\ maxDensity = 0
    /\ particles = <<>>
    /\ pgrid = <<>>
    /\ forces = <<>>
    /\ solidCells = {}
    /\ frame = 0
    /\ sceneLog = NoQueries
    /\ budget = 0
    /\ race = FALSE

\* ------------------------------------------- the grid operations, run alone

InitGridRun ==
    /\ trace = <<>>
    /\ fluidCode = 1
    /\ picflipratio = 19
    /\ InitNoParticles
    /\ \E d \in GridDims :
          /\ InitGrid(d)
          /\ \/ /\ todo = <<"StorePreviousGrid", "SubtractPreviousGrid">>
                /\ subcell = 1
                /\ A = [c \in Cells(d) |-> "AIR"]
                /\ u \in InputFields(d)
                /\ uprev \in {[f \in Faces(d) |-> v] : v \in {0, MaxVel}}
             \/ /\ todo = <<"ExtrapolateVelocity", "ExtrapolateVelocity">>
                /\ subcell = 1
                /\ A \in AllMarkers(d)
                /\ u \in InputFields(d)
                /\ uprev = ZeroFaces(d)
             \/ /\ todo = <<"EnforceBoundaryVelocity", "Project">>
                /\ subcell \in {0, 1}
                /\ A \in AllMarkers(d)
                /\ u \in SparseFields(d, 1)
                /\ uprev = ZeroFaces(d)
    /\ before = Snapshot

NextGridRun ==
    \/ StorePreviousGrid
    \/ SubtractPreviousGrid
    \/ ExtrapolateVelocity
    \/ EnforceBoundaryVelocity
    \/ Project

SpecGrid == InitGridRun /\ [][NextGridRun]_vars

\* ------------------------------------------------------- the solver, run alone

\* The pressures solve is called on: none, or one that differs from cell to cell.
InputPressures(d) ==
    {[c \in Cells(d) |-> v * (1 + c[1] + 2 * c[2] + 3 * c[3])] : v \in {0, 1}}

InitSolverRun ==
    /\ trace = <<>>
    /\ todo = <<"Solve">>
    /\ fluidCode \in 0..2
    /\ subcell \in {0, 1}
    /\ picflipratio = 19
    /\ InitNoParticles
    /\ \E d \in GridDims :
          /\ dims = d
          /\ A \in AllMarkers(d)
          /\ L \in LevelSets(d, A)
          /\ P \in InputPressures(d)
          /\ D \in {[c \in Cells(d) |-> v * (c[1] + c[2] + c[3] + 1)] : v \in Vels}
          /\ precon = ZeroCells(d)
          /\ resid = ZeroCells(d)
          /\ u = ZeroFaces(d)
          /\ uprev = ZeroFaces(d)
    /\ before = Snapshot

NextSolverRun == Solve

SpecSolver == InitSolverRun /\ [][NextSolverRun]_vars

\* ------------------------------------------------------------ the step, run

\* The grids a step is run on: one axis a cell longer than the largest grid of
\* the grid operations, so that the walls leave the particles room.
StepDims == {d \in (1..(MaxDim + 1)) \X (1..(MaxDim + 1)) \X (1..(MaxDim + 1)) :
                d[1] * d[2] * d[3] <= MaxCells /\ Maxd(d) = MaxDim + 1}

\* The middle of the domain, in position quanta.
Middle(d) == (Maxd(d) * CellUnits) \div 2

\* A fluid particle in the middle of the domain or on the lower x wall, at
\* rest or moving.
FluidStarts(d) ==
    {NewParticle("FLUID", <<Middle(d), Middle(d), Middle(d)>>, Zero3, Zero3),
     NewParticle("FLUID", <<Middle(d), Middle(d), Middle(d)>>, <<CellUnits - 1, 0, 0>>, Zero3),
     NewParticle("FLUID", <<WallLo, Middle(d), Middle(d)>>, Zero3, Zero3),
     NewParticle("FLUID", <<WallLo, Middle(d), Middle(d)>>, <<-2, 1, 0>>, Zero3)}

\* A solid particle in the middle of the domain with no normal or one towards
\* the lower x wall, one inside that wall with no normal or one out of it.
SolidStarts(d) ==
    {NewParticle("SOLID", <<Middle(d), Middle(d), Middle(d)>>, Zero3, Zero3),
     NewParticle("SOLID", <<Middle(d), Middle(d), Middle(d)>>, Zero3, <<-1, 0, 0>>),
     NewParticle("SOLID", <<WallLo \div 2, Middle(d), Middle(d)>>, Zero3, Zero3),
     NewParticle("SOLID", <<WallLo \div 2, Middle(d), Middle(d)>>, Zero3, <<1, 0, 0>>)}

\* The particles the scene generates in Init (74): none, one, a fluid and a
\* solid particle, or two fluid particles one quantum apart.
StartParticles(d) ==
    {<<>>}
    \cup {<<q>> : q \in FluidStarts(d)}
    \cup {<<w>> : w \in {s \in SolidStarts(d) : s.n # Zero3}}
    \cup {<<q, w>> : q \in {f \in FluidStarts(d) : (f.u = Zero3) = (f.p[1] = WallLo)},
                     w \in SolidStarts(d)}
    \cup {<<q, [q EXCEPT !.p = VAdd(q.p, <<1, 0, 0>>), !.pt = VAdd(q.p, <<1, 0, 0>>)]>> :
             q \in {f \in FluidStarts(d) : f.u # Zero3}}

\* The cells the solid geometry covers: the first n of the grid.
SolidCover(d, n) == {c \in Cells(d) : c[1] + c[2] + c[3] < n}

Gravity == <<0, -1, 0>>

\* The scenes: the external forces and the number of cells the solid covers.
Scenes == {[forces |-> <<Gravity>>, cover |-> 0], [forces |-> <<>>, cover |-> 1]}

\* FlipSim::Init: the calibration of m_max_density on the temporary particles
\* (50-71), then the scene's particles of frame 0, Sort and MarkCellTypes
\* (74-76).  BuildPermaSolidGeomLevelSet (43) changes the scene's own state.
Init ==
    /\ Begin("Init")
    /\ maxDensity' = Calibrate(dims, particles)
    /\ \E new \in StartParticles(dims) :
          /\ particles' = new
          /\ pgrid' = SortOp(dims, new)
          /\ A' = MarkCellTypesOp(new, SortOp(dims, new), dims, solidCells)
          /\ sceneLog' = [NoQueries EXCEPT !.generated = new]
    /\ race' = (race \/ LET temp == particles \o CalibrationParticles
                        IN  Races(Indices(temp),
                                  LAMBDA i : DensityAccess(temp, SortOp(dims, temp), dims, i)))
    /\ UNCHANGED <<dims, subcell, fluidCode, picflipratio, forces, solidCells,
                   L, u, P, D, uprev, precon, resid, frame, budget>>
    /\ Advance("Init")

\* The simulator as its constructor leaves it (15-30), before Init is called.
InitStepRun ==
    /\ trace = <<>>
    /\ todo = <<"Init">>
    /\ maxDensity = 0
    /\ fluidCode = 1
    /\ subcell = 1
    /\ frame = 0
    /\ sceneLog = NoQueries
    /\ budget = MaxHits
    /\ race = FALSE
    /\ \E d \in StepDims :
          /\ InitGrid(d)
          /\ \/ \E sc \in Scenes :
                   /\ picflipratio \in {0, 19, RatioUnits}
                   /\ forces = sc.forces
                   /\ solidCells = SolidCover(d, sc.cover)
             \/ /\ picflipratio = 19
                /\ forces = <<>>
                /\ solidCells = SolidCover(d, 2)
          /\ particles = <<>>
          /\ pgrid = <<>>
          /\ A = [c \in Cells(d) |-> "AIR"]
          /\ u = ZeroFaces(d)
          /\ uprev = ZeroFaces(d)
    /\ before = Snapshot

NextStepRun ==
    \/ Init
    \/ Step
    \/ GenerateParticles
    \/ BuildSolidGeomLevelSet
    \/ AdjustParticlesStuckInSolids
    \/ StoreTempParticleVelocities
    \/ Sort
    \/ ComputeDensity
    \/ ApplyExternalForces
    \/ SplatParticlesToMACGrid
    \/ MarkCellTypes
    \/ StorePreviousGrid
    \/ EnforceBoundaryVelocity
    \/ Project
    \/ ExtrapolateVelocity
    \/ SubtractPreviousGrid
    \/ SolvePicFlip
    \/ AdvectParticles
    \/ CheckParticleSolidConstraints
    \/ ResampleParticles
    \/ ExportParticles

SpecStep == InitStepRun /\ [][NextStepRun]_vars


\* ===================================================================== claims

Last(seq) == seq[Len(seq)]

RoundTripRan == trace = <<"StorePreviousGrid", "SubtractPreviousGrid">>

\* C6: SubtractPreviousGrid right after StorePreviousGrid leaves 0 on every
\* face of m_mgrid_previous (the (X+1)*Y*Z faces of u_x, the X*(Y+1)*Z of u_y,
\* the X*Y*(Z+1) of u_z), and neither operation changes m_mgrid.
C6_RoundTripZero ==
    /\ RoundTripRan =>
          /\ DOMAIN uprev = XFaces(dims) \cup YFaces(dims) \cup ZFaces(dims)
          /\ \A f \in DOMAIN uprev : uprev[f] = 0
    /\ (trace # <<>> /\ Last(trace) \in {"StorePreviousGrid", "SubtractPreviousGrid"})
          => (u = before.u /\ P = before.P)

\* The round trip has run on a non-cubic grid whose field is off zero on a face
\* of the last x plane, over a previous grid that held something else.
C6_Witness ==
    /\ RoundTripRan
    /\ dims[1] # dims[3]
    /\ \E f \in XFaces(dims) : f[2] = dims[1] /\ u[f] # 0
    /\ \E f \in Faces(dims) : before.uprev[f] # 0

ExtrapolatedTwice == trace = <<"ExtrapolateVelocity", "ExtrapolateVelocity">>

\* C7: a second ExtrapolateVelocity over the same markers changes no face.
C7_ExtrapolateIdempotent == ExtrapolatedTwice => u = before.u

\* Two passes have run and some face holds a non-zero value the pass wrote: the
\* average of two marked neighbours.
C7_Witness ==
    /\ ExtrapolatedTwice
    /\ \E f \in Faces(dims) :
          /\ ExtrapolateWrites(dims, A, f)
          /\ ExtrapolateWsum(dims, A, f) >= 2
          /\ u[f] # 0

ProjectRan == trace # <<>> /\ Last(trace) = "Project"

\* A divergence is below the solver's tolerance when it is less than one quantum.
BelowTolerance(v) == v = 0

\* C3: after Project with subcell = 0, the divergence of the new face velocities
\* at every FLUID cell is below the tolerance.
C3_ProjectDivergenceFree ==
    (ProjectRan /\ subcell = 0) =>
        \A c \in Cells(dims) :
            A[c] = "FLUID" => BelowTolerance(Divergence(dims, u, c))

SolveRan == trace = <<"Solve">>

\* 1/sqrt(e) is stored, and positive, exactly when the cell holds a positive e.
PreconPositive(c) == precon[c] > 0

\* C4 as claimed: after buildPreconditioner the stored value is positive at
\* every FLUID cell.
C4_PreconditionerPositive ==
    SolveRan => \A c \in Cells(dims) : A[c] = "FLUID" => PreconPositive(c)

\* --------------------------------------------------------------------- C1

\* The order the specification gives the phases of a step.
ClaimedOrder ==
    <<"GenerateParticles", "BuildSolidGeomLevelSet", "AdjustParticlesStuckInSolids",
      "StoreTempParticleVelocities", "Sort", "ComputeDensity", "ApplyExternalForces",
      "SplatParticlesToMACGrid", "MarkCellTypes", "StorePreviousGrid",
      "EnforceBoundaryVelocity", "Project", "EnforceBoundaryVelocity",
      "ExtrapolateVelocity", "SubtractPreviousGrid", "SolvePicFlip", "AdvectParticles",
      "CheckParticleSolidConstraints", "StoreTempParticleVelocities",
      "ResampleParticles">>

InStep == frame > 0

\* C1: in every call of Step the phases that have run are, one after the other,
\* the first ones of the specification's list of twenty, from the emission of
\* particles to ResampleParticles; a phase starts when the one before it has
\* returned.
C1_PhasesInOrder ==
    InStep =>
        \A n \in 1..Min2(Len(trace), Len(ClaimedOrder)) : trace[n] = ClaimedOrder[n]

\* A call of Step has gone through all twenty phases.
C1_Witness ==
    /\ InStep
    /\ Len(trace) >= Len(ClaimedOrder)
    /\ trace[Len(ClaimedOrder)] = "ResampleParticles"

\* --------------------------------------------------------------------- C2

AdvectRan == InStep /\ trace # <<>> /\ Last(trace) = "AdvectParticles"

InsideWalls(d, pos) ==
    \A a \in 1..3 : WallLo <= pos[a] /\ pos[a] <= WallHi(d)

\* C2 as claimed: when AdvectParticles returns, every FLUID particle has each
\* coordinate of p in [1/maxd, 1 - 1/maxd].
C2_AdvectInsideWalls ==
    AdvectRan => \A i \in FluidIndices(particles) : InsideWalls(dims, particles[i].p)

\* --------------------------------------------------------------------- C5

PicFlipRan == InStep /\ trace # <<>> /\ Last(trace) = "SolvePicFlip"

\* The interpolation of the new field and of the delta field at particle i.
PicVelocity(i) == InterpolateVelocity(particles[i].p, u, dims)
DeltaVelocity(i) == InterpolateVelocity(particles[i].p, uprev, dims)
FlipVelocity(i) == VAdd(before.particles[i].u, DeltaVelocity(i))

\* C5: after SolvePicFlip a fluid particle's u is (1-alpha)*PIC +
\* alpha*(u before the call + interpolated delta); with alpha = 0 it is the
\* interpolation of mgrid, with alpha = 1 the velocity before the call plus the
\* interpolation of mgrid_previous.
C5_PicFlipBlend ==
    PicFlipRan =>
        \A i \in FluidIndices(particles) :
            /\ particles[i].u =
                  VAdd(VScale(PicVelocity(i), RatioUnits - picflipratio, RatioUnits),
                       VScale(FlipVelocity(i), picflipratio, RatioUnits))
            /\ picflipratio = 0 => particles[i].u = PicVelocity(i)
            /\ picflipratio = RatioUnits => particles[i].u = FlipVelocity(i)

\* SolvePicFlip has run with alpha = 0.95 on a fluid particle whose PIC and FLIP
\* velocities differ, the grid delta at the particle being off zero.
C5_Witness ==
    /\ PicFlipRan
    /\ picflipratio = 19
    /\ \E i \in FluidIndices(particles) :
          /\ PicVelocity(i) # FlipVelocity(i)
          /\ PicVelocity(i) # Zero3
          /\ DeltaVelocity(i) # Zero3
          /\ particles[i].u # before.particles[i].u

\* --------------------------------------------------------------------- C8

\* C8: in no parallel loop of the step do two iterations touch the same slot (a
\* field of a particle, a sample of a grid), one of them writing it.
C8_NoRace == ~race

\* The step has run its loops on two fluid particles that are neighbours of each
\* other, and the extrapolation has written a face from a marked neighbour.
C8_Witness ==
    /\ InStep /\ todo = <<>>
    /\ ~race
    /\ Cardinality(FluidIndices(particles)) >= 2
    /\ \E f \in Faces(dims) : ExtrapolateWrites(dims, A, f)

\* --------------------------------------------------------------------- C9

NoFluidCell == \A c \in Cells(dims) : A[c] # "FLUID"

\* The next phase of the call in progress can run: the scene has an answer for
\* the phases that ask it.
PhaseReady ==
    CASE Head(todo) = "GenerateParticles" -> \E new \in Emitted : EmitFits(particles, new)
      [] Head(todo) = "AdjustParticlesStuckInSolids" -> StuckChoices(particles, budget) # {}
      [] Head(todo) = "CheckParticleSolidConstraints" -> CheckAnswers(particles, budget) # {}
      [] OTHER -> \E n \in 1..Len(StepPhases) : StepPhases[n] = Head(todo)

\* C9: when no cell is FLUID, Project leaves the face velocities and the
\* pressure as they were; and the step has its next phase to run until it
\* returns, every phase run.
C9_EmptyProjection ==
    /\ (InStep /\ ProjectRan /\ NoFluidCell) => (u = before.u /\ P = before.P)
    /\ (InStep /\ NoFluidCell /\ todo # <<>>) => PhaseReady
    /\ (InStep /\ NoFluidCell /\ todo = <<>>) => Len(trace) = Len(StepPhases)

\* A step has returned after a projection over a grid with no FLUID cell and a
\* face velocity off zero.
C9_Witness ==
    /\ InStep /\ todo = <<>>
    /\ NoFluidCell
    /\ \E f \in Faces(dims) : u[f] # 0

\* -------------------------------------------------------------------- C10

UnstickRan == InStep /\ trace # <<>> /\ Last(trace) = "AdjustParticlesStuckInSolids"
CheckRan == InStep /\ trace # <<>> /\ Last(trace) = "CheckParticleSolidConstraints"

\* The particles whose ray has no direction: in the unstick phase a stuck
\* particle the projection left where it was, in the constraint phase a fluid
\* particle with p = pt.
UnstickDegenerate(i) ==
    i \in sceneLog.found /\ sceneLog.projected[i] = before.particles[i].p
CheckDegenerate(i) ==
    /\ i \in FluidIndices(before.particles)
    /\ before.particles[i].p = before.particles[i].pt

Untouched(i) ==
    /\ particles[i].p = before.particles[i].p
    /\ particles[i].u = before.particles[i].u

\* C10 as claimed: either phase leaves p and u of a particle with a degenerate
\* ray as they were and makes no ray cast and no point-in-solid query for it.
C10_DegenerateSkipped ==
    /\ UnstickRan =>
          \A i \in Indices(particles) :
              UnstickDegenerate(i) =>
                  Untouched(i) /\ i \notin sceneLog.rays /\ i \notin sceneLog.inside
    /\ CheckRan =>
          \A i \in Indices(particles) :
              CheckDegenerate(i) =>
                  Untouched(i) /\ i \notin sceneLog.rays /\ i \notin sceneLog.inside

\* C10 as amended: either phase leaves p and u of a particle with a degenerate
\* ray as they were and casts no ray for it; the constraint phase makes no
\* point-in-solid query for it either, while the unstick phase has made the one
\* that found it inside a solid.
C10_DegenerateNoRay ==
    /\ UnstickRan =>
          \A i \in Indices(particles) :
              UnstickDegenerate(i) =>
                  Untouched(i) /\ i \notin sceneLog.rays /\ i \in sceneLog.inside
    /\ CheckRan =>
          \A i \in Indices(particles) :
              CheckDegenerate(i) =>
                  Untouched(i) /\ i \notin sceneLog.rays /\ i \notin sceneLog.inside

\* The unstick phase has returned with a stuck particle the projection left in
\* place.
C10_Witness ==
    /\ UnstickRan
    /\ \E i \in Indices(particles) : UnstickDegenerate(i)

\* -------------------------------------------------------------------- C11

\* The places of the call's phases at which CheckParticleSolidConstraints ran.
ChecksRun == {n \in 1..Len(trace) : trace[n] = "CheckParticleSolidConstraints"}

\* The last phase left every particle's p and u, and the particle list's
\* length, as they were.
SameMotion ==
    /\ Len(particles) = Len(before.particles)
    /\ \A i \in Indices(particles) :
          /\ particles[i].p = before.particles[i].p
          /\ particles[i].u = before.particles[i].u

FirstCheck == Len(ClaimedOrder) - 2
SecondCheck == Len(ClaimedOrder) + 1

\* C11 as claimed: CheckParticleSolidConstraints runs once in a call of Step,
\* and no phase after ResampleParticles changes a particle's p or u.
C11_CheckOnceResampleLast ==
    InStep =>
        /\ Cardinality(ChecksRun) <= 1
        /\ (todo = <<>> => Cardinality(ChecksRun) = 1)
        /\ (Len(trace) > Len(ClaimedOrder) => SameMotion)

\* C11 as amended: CheckParticleSolidConstraints runs twice in a call of Step,
\* after AdvectParticles and before the second StoreTempParticleVelocities,
\* and again after ResampleParticles; the phase after the second run, the
\* export, changes no particle's p or u.
C11_CheckTwiceThenExport ==
    InStep =>
        /\ ChecksRun \subseteq {FirstCheck, SecondCheck}
        /\ (Len(trace) >= FirstCheck =>
               /\ FirstCheck \in ChecksRun
               /\ trace[FirstCheck - 1] = "AdvectParticles")
        /\ (Len(trace) > FirstCheck =>
               trace[FirstCheck + 1] = "StoreTempParticleVelocities")
        /\ (Len(trace) >= SecondCheck =>
               /\ SecondCheck \in ChecksRun
               /\ trace[SecondCheck - 1] = "ResampleParticles")
        /\ (Len(trace) > SecondCheck => SameMotion)
        /\ (todo = <<>> => Len(trace) = SecondCheck + 1)

\* The second run of CheckParticleSolidConstraints, the one after
\* ResampleParticles, has moved a particle.
C11_Witness ==
    InStep /\ Len(trace) = SecondCheck /\ ChecksRun = {FirstCheck, SecondCheck}
           /\ ~SameMotion


\* -------------------------------------------------------------------- C12

\* The SOLID particles there were when the last phase started.
SolidBefore == {i \in Indices(before.particles) : before.particles[i].type = "SOLID"}

\* C12: no phase of Step changes p or u of a SOLID particle, so that both stay
\* what they were when the particle was created.
C12_SolidStatic ==
    (InStep /\ trace # <<>>) =>
        \A i \in SolidBefore :
            /\ i \in Indices(particles)
            /\ particles[i].p = before.particles[i].p
            /\ particles[i].u = before.particles[i].u


\* -------------------------------------------------------------------- C13

\* The flat indices the loops of the solver run over.
FlatRange(d) == 0..(d[1] * d[2] * d[3] - 1)

\* C13: the loop of flipGrid negates every cell of the grid once and addresses
\* no other index: the decomposition of the flat index maps 0..X*Y*Z-1 one to
\* one onto the cells.
C13_FlipGridEveryCellOnce ==
    SolveRan =>
        /\ \A c \in Cells(dims) : D[c] = -before.D[c]
        /\ \A gn \in FlatRange(dims) : FlatIndex(dims, gn) \in Cells(dims)
        /\ \A c \in Cells(dims) :
              Cardinality({gn \in FlatRange(dims) : FlatIndex(dims, gn) = c}) = 1


\* -------------------------------------------------------------------- C14

\* The cells the loop of buildPreconditioner reaches.
Visited(d, c) == \E gn \in FlatRange(d) : FlatIndex(d, gn) = c

\* The stored e of predecessor m of cell c where the claim has the predecessor
\* count (inside the domain, marked FLUID, a value stored), else 0.
PredStored(c, m) ==
    LET q == CellNeighbor(c, m)
    IN  IF InDomain(dims, q[1], q[2], q[3]) /\ A[q] = "FLUID" THEN precon[q] ELSE 0

\* The square of the stored 1/sqrt(e) is 1/e: the claimed e is a fraction over
\* the product of the predecessors' e.
PredDen(c, m) == IF PredStored(c, m) > 0 THEN PredStored(c, m) ELSE 1
ClaimedDen(c) == PredDen(c, 0) * PredDen(c, 2) * PredDen(c, 4)
PredShare(c, m) ==
    IF PredStored(c, m) > 0
    THEN (DiagScale * DiagScale * ClaimedDen(c)) \div PredStored(c, m) ELSE 0
ClaimedNum(c) ==
    ADiag(A, L, c, dims, subcell) * ClaimedDen(c)
    - PredShare(c, 0) - PredShare(c, 2) - PredShare(c, 4)

\* C14: at a FLUID cell (one the loop reaches, with a positive diagonal)
\* buildPreconditioner stores 1/sqrt(e) for e = diag minus the squared stored
\* values of the in-domain FLUID predecessors, or for e = diag when that is
\* below diag/4.
C14_PreconditionerFromPredecessors ==
    SolveRan =>
        \A c \in Cells(dims) :
            (A[c] = "FLUID" /\ Visited(dims, c) /\ ADiag(A, L, c, dims, subcell) > 0) =>
                precon[c] * ClaimedDen(c) =
                    (IF 4 * ClaimedNum(c) < ADiag(A, L, c, dims, subcell) * ClaimedDen(c)
                     THEN ADiag(A, L, c, dims, subcell) * ClaimedDen(c)
                     ELSE ClaimedNum(c))


\* -------------------------------------------------------------------- C15

\* The neighbours of cell c that are SOLID or outside the domain, those inside
\* the domain and not SOLID, and those inside the domain and AIR.
BlockedNeighbors(c) ==
    {m \in 0..5 : LET q == CellNeighbor(c, m)
                  IN  ~InDomain(dims, q[1], q[2], q[3]) \/ A[q] = "SOLID"}
OpenNeighbors(c) ==
    {m \in 0..5 : LET q == CellNeighbor(c, m)
                  IN  InDomain(dims, q[1], q[2], q[3]) /\ A[q] # "SOLID"}
AirNeighbors(c) ==
    {m \in 0..5 : LET q == CellNeighbor(c, m)
                  IN  InDomain(dims, q[1], q[2], q[3]) /\ A[q] = "AIR"}

\* The level set at neighbour m of c when that neighbour is AIR, else 0.
AirL(c, m) == IF m \in AirNeighbors(c) THEN L[CellNeighbor(c, m)] ELSE 0
AirLSum(c) == AirL(c, 0) + AirL(c, 1) + AirL(c, 2) + AirL(c, 3) + AirL(c, 4) + AirL(c, 5)

\* What the AIR neighbours have taken off the diagonal, in units of 1/DiagScale.
GhostPart(c) ==
    DiagScale * (6 - Cardinality(BlockedNeighbors(c))) - ADiag(A, L, c, dims, subcell)

\* C15: at a FLUID cell ADiag is 6 minus one for each neighbour that is SOLID
\* or outside the domain, minus, when subcell is set, L[neighbour]/min(1e-6,
\* L[cell]) for each AIR neighbour; with subcell = 0 it is the number of
\* in-domain neighbours that are not SOLID, between 0 and 6.
C15_ADiagCounts ==
    SolveRan =>
        \A c \in Cells(dims) :
            A[c] = "FLUID" =>
                /\ subcell = 0 =>
                      /\ GhostPart(c) = 0
                      /\ ADiag(A, L, c, dims, subcell)
                            = DiagScale * Cardinality(OpenNeighbors(c))
                      /\ ADiag(A, L, c, dims, subcell) \in 0..(6 * DiagScale)
                /\ (subcell = 1 /\ L[c] < 0) =>
                      GhostPart(c) * L[c] = DiagScale * AirLSum(c)
                /\ (subcell = 1 /\ L[c] > 0) =>
                      GhostPart(c) = InvEps6 * DiagScale * AirLSum(c)

\* solve has run with subcell set on a grid with a FLUID cell inside the
\* liquid that has an AIR neighbour and an open diagonal.
C15_Witness ==
    /\ SolveRan /\ subcell = 1
    /\ \E c \in Cells(dims) :
          /\ A[c] = "FLUID" /\ L[c] < 0
          /\ AirNeighbors(c) # {}
          /\ GhostPart(c) # 0


\* -------------------------------------------------------------------- C16

\* The cell xRef reads for neighbour m of cell c: the neighbour, or, when that
\* is outside the domain, the in-domain cell nearest to it, which is c.
NearestCell(c, m) ==
    LET q == CellNeighbor(c, m)
    IN  IF InDomain(dims, q[1], q[2], q[3]) THEN q ELSE c

\* What xRef returns for neighbour m of cell c, in units of 1/DiagScale.
Read(c, m) == xRef(A, L, P, c, CellNeighbor(c, m), dims, subcell)

ReadSum(c) == Read(c, 0) + Read(c, 1) + Read(c, 2) + Read(c, 3) + Read(c, 4) + Read(c, 5)

\* C16: xRef returns X at the neighbour when the neighbour is FLUID, X at the
\* centre when it is SOLID, L[neighbour]/min(1e-6, L[centre]) * X[centre] when
\* it is AIR and subcell is set, 0 when it is AIR and subcell is not set; a
\* neighbour outside the domain is read at the nearest in-domain cell.  The
\* residual solveConjugateGradient leaves at a FLUID cell its loops reach is
\* D - (6 X - the six reads)/h.
C16_xRefRules ==
    SolveRan =>
        \A c \in Cells(dims) :
            /\ \A m \in 0..5 :
                  LET n == NearestCell(c, m)
                  IN  /\ n \in Cells(dims)
                      /\ A[n] = "FLUID" => Read(c, m) = DiagScale * P[n]
                      /\ A[n] = "SOLID" => Read(c, m) = DiagScale * P[c]
                      /\ (A[n] = "AIR" /\ subcell = 0) => Read(c, m) = 0
                      /\ (A[n] = "AIR" /\ subcell = 1 /\ L[c] < 0) =>
                            Read(c, m) * L[c] = DiagScale * L[n] * P[c]
                      /\ (A[n] = "AIR" /\ subcell = 1 /\ L[c] > 0) =>
                            Read(c, m) = InvEps6 * DiagScale * L[n] * P[c]
            /\ (A[c] = "FLUID" /\ Visited(dims, c)) =>
                  resid[c] = DiagScale * D[c]
                             - Maxd(dims) * Maxd(dims) * (6 * DiagScale * P[c] - ReadSum(c))

\* solve has run with subcell set on a pressure that is not zero, at a FLUID
\* cell inside the liquid with an AIR neighbour, a SOLID neighbour and a
\* neighbour outside the domain.
C16_Witness ==
    /\ SolveRan /\ subcell = 1
    /\ \E c \in Cells(dims) :
          /\ A[c] = "FLUID" /\ L[c] < 0 /\ P[c] # 0 /\ Visited(dims, c)
          /\ \E m \in 0..5 : CellNeighbor(c, m) \notin Cells(dims)
          /\ \E m \in 0..5 : CellNeighbor(c, m) \in Cells(dims)
                             /\ A[CellNeighbor(c, m)] = "AIR" /\ Read(c, m) # 0
          /\ \E m \in 0..5 : CellNeighbor(c, m) \in Cells(dims)
                             /\ A[CellNeighbor(c, m)] = "SOLID"


\* -------------------------------------------------------------------- C17

ExtrapolateRan == trace # <<>> /\ Last(trace) = "ExtrapolateVelocity"

\* The cells of the domain on the two sides of face f.
AdjacentCells(f) == {BackCell(f), FrontCell(f)} \cap Cells(dims)

\* A face next to a FLUID cell, and a face with nothing but SOLID cells or the
\* outside of the domain next to it, by the markers the pass started from.
NextToFluid(f) == \E c \in AdjacentCells(f) : before.A[c] = "FLUID"
OnlyWalls(f) == \A c \in AdjacentCells(f) : before.A[c] = "SOLID"

\* The faces of the same component one step from f along one axis.
SameComponentNeighbors(f) ==
    {g \in Faces(dims) :
        /\ g[1] = f[1]
        /\ Abs(g[2] - f[2]) + Abs(g[3] - f[3]) + Abs(g[4] - f[4]) = 1}

MarkedNeighbors(f) == {g \in SameComponentNeighbors(f) : NextToFluid(g)}

RECURSIVE FieldSum(_, _)
FieldSum(field, S) ==
    IF S = {} THEN 0
    ELSE LET g == CHOOSE h \in S : TRUE
         IN  field[g] + FieldSum(field, S \ {g})

\* The faces the claim says ExtrapolateVelocity changes.
Extrapolated(f) ==
    /\ ~NextToFluid(f) /\ OnlyWalls(f)
    /\ MarkedNeighbors(f) # {}

\* C17: ExtrapolateVelocity gives a face that is not next to a FLUID cell, has
\* only SOLID cells or the outside of the domain next to it and has a marked
\* neighbour of its component the unweighted average of the values its marked
\* neighbours had; every other face, and the marker grid, are as they were.
C17_ExtrapolateFrame ==
    ExtrapolateRan =>
        /\ A = before.A
        /\ DOMAIN u = DOMAIN before.u
        /\ \A f \in Faces(dims) :
              IF Extrapolated(f)
              THEN u[f] = FieldSum(before.u, MarkedNeighbors(f))
                              \div Cardinality(MarkedNeighbors(f))
              ELSE u[f] = before.u[f]

\* The pass has changed a face with two marked neighbours of different values,
\* and left alone a face whose value is not zero.
C17_Witness ==
    /\ ExtrapolateRan
    /\ \E f \in Faces(dims) :
          /\ Extrapolated(f) /\ u[f] # before.u[f]
          /\ \E g, h \in MarkedNeighbors(f) : before.u[g] # before.u[h]
    /\ \E f \in Faces(dims) :
          /\ ~Extrapolated(f)
          /\ u[f] # 0


\* -------------------------------------------------------------------- C18

\* A stuck particle of the unstick phase whose ray has a direction.
UnstickMoved(i) == i \in sceneLog.found /\ ~UnstickDegenerate(i)

\* x is num/den rounded towards zero.
RoundedQuotient(x, num, den) ==
    /\ x * num >= 0
    /\ Abs(den * x) <= Abs(num)
    /\ Abs(num) - Abs(den * x) < den

\* Particle i lies on the ray from origin along toward, at 1.05 times the
\* distance IntersectSolidGeoms gave for it.
PlacedAlong(i, origin, toward) ==
    \A n \in 1..3 :
        RoundedQuotient(particles[i].p[n] - origin[n],
                        105 * sceneLog.dist[i] * toward[n], 100 * Length(toward))

\* The unit vector along toward times the length of toward is toward itself.
VelocityAlong(i, toward) == particles[i].u = toward

NotStuckUntouched ==
    /\ Len(particles) = Len(before.particles)
    /\ \A i \in Indices(particles) : i \notin sceneLog.found => Untouched(i)

\* C18 as claimed: the ray of a stuck FLUID particle starts at the projected
\* point and points to the position the particle had; the particle is put at
\* 1.05 times the intersection distance along it, with the velocity of the unit
\* direction times the length of the displacement.  Other particles keep p, u.
C18_RayFromSurface ==
    UnstickRan =>
        /\ NotStuckUntouched
        /\ \A i \in Indices(particles) :
              UnstickMoved(i) =>
                  LET toward == VSub(before.particles[i].p, sceneLog.projected[i])
                  IN  /\ i \in sceneLog.rays
                      /\ PlacedAlong(i, sceneLog.projected[i], toward)
                      /\ VelocityAlong(i, toward)

\* C18 as amended: the ray starts at the position the particle had and points
\* to the projected point.
C18_RayFromOriginal ==
    UnstickRan =>
        /\ NotStuckUntouched
        /\ \A i \in Indices(particles) :
              UnstickMoved(i) =>
                  LET toward == VSub(sceneLog.projected[i], before.particles[i].p)
                  IN  /\ i \in sceneLog.rays
                      /\ PlacedAlong(i, before.particles[i].p, toward)
                      /\ VelocityAlong(i, toward)

\* The unstick phase has moved a stuck particle along a ray whose hit is further
\* away than the projected point, and there is a particle it did not find stuck.
C18_Witness ==
    /\ UnstickRan
    /\ \E i \in Indices(particles) :
          /\ UnstickMoved(i)
          /\ sceneLog.dist[i] > Length(VSub(sceneLog.projected[i], before.particles[i].p))
          /\ particles[i].p # sceneLog.projected[i]
          /\ particles[i].u # before.particles[i].u
    /\ \E j \in Indices(particles) : j \notin sceneLog.found


\* -------------------------------------------------------------------- C19

InitRan == frame = 0 /\ trace = <<"Init">>

\* The positions of the block of temporary particles: (i + 1/2) h along each
\* axis.
BlockCoordinates ==
    {((2 * i + 1) * CalibrationSpacing) \div 2 : i \in 0..(CalibrationSide - 1)}
BlockPoints == BlockCoordinates \X BlockCoordinates \X BlockCoordinates

\* The block's points the particle grid holds within one cell of the cell of p.
BlockNeighbors(p) ==
    {q \in BlockPoints :
        \A n \in 1..3 : Abs(SortCell(dims, q)[n] - DensityCell(dims, p)[n]) <= 1}

\* The density of a temporary particle at p with m_max_density = 1: the sum of
\* the kernel over its neighbours, each of mass 1.
BlockDensity(p) ==
    FieldSum([q \in BlockPoints |-> Smooth(Dot(VSub(q, p), VSub(q, p)), SmoothRadius)],
             BlockNeighbors(p))

GridReaders == {"ComputeDensity", "SplatParticlesToMACGrid", "MarkCellTypes", "Project"}

\* The particles as the Sort inside AdvectParticles (247) saw them.
SortedInAdvect == MoveParticles(before.particles, before.u, dims)

\* C20: when a phase of Step reads the particle grid, every particle is where
\* the last Sort saw it and in the cell the grid has it in.  For the read inside
\* AdvectParticles (264), which follows the Sort of 247 and the wall clamp of
\* the reading particle: the clamp has left the particle's position and cell
\* as they were.
C20_ReadsAfterSort ==
    /\ (InStep /\ todo # <<>> /\ Head(todo) \in GridReaders) =>
          pgrid = SortOp(dims, particles)
    /\ AdvectRan =>
          \A i \in FluidIndices(before.particles) :
              /\ ClampToWalls(dims, SortedInAdvect[i].p) = SortedInAdvect[i].p
              /\ SortCell(dims, ClampToWalls(dims, SortedInAdvect[i].p)) = pgrid[i]


\* -------------------------------------------------------------------- C21

\* ARef(c, n) * X[n] for neighbour m of cell c, in units of 1/DiagScale: ARef
\* is 0 for a neighbour outside the domain, which has no X.
OffDiagonalTerm(c, m) ==
    LET q == CellNeighbor(c, m)
    IN  IF q \in Cells(dims)
        THEN ARef(A, c[1], c[2], c[3], q[1], q[2], q[3], dims) * DiagScale * P[q]
        ELSE 0

\* maxd^2 * (ADiag(c)*X[c] + the sum over the six neighbours of ARef(c,n)*X[n])
MatrixRow(c) ==
    Maxd(dims) * Maxd(dims)
    * (ADiag(A, L, c, dims, subcell) * P[c]
       + OffDiagonalTerm(c, 0) + OffDiagonalTerm(c, 1) + OffDiagonalTerm(c, 2)
       + OffDiagonalTerm(c, 3) + OffDiagonalTerm(c, 4) + OffDiagonalTerm(c, 5))

\* The claim at one cell.
AxMatchesAt(c) ==
    computeAx(A, L, P, dims, subcell)[c] = (IF A[c] = "FLUID" THEN MatrixRow(c) ELSE 0)

\* C21: computeAx gives maxd^2 * (ADiag(c)*X[c] + sum of ARef(c,n)*X[n]) at
\* every FLUID cell c and 0 at every other cell, for every marker grid and
\* both settings of subcell.
C21_AxIsPreconditionerMatrix ==
    SolveRan => \A c \in Cells(dims) : AxMatchesAt(c)

\* The same at the cells the loop of computeAx reaches.
AxMatchesWhereReached ==
    SolveRan => \A c \in Cells(dims) : Visited(dims, c) => AxMatchesAt(c)

\* solve has run on a pressure that is not zero, and a FLUID cell the loop
\* reaches has a FLUID, a SOLID and an AIR neighbour.
AxReachedWitness ==
    /\ SolveRan /\ subcell = 1
    /\ \E c \in Cells(dims) :
          /\ A[c] = "FLUID" /\ Visited(dims, c) /\ MatrixRow(c) # 0
          /\ \E m \in 0..5 : CellNeighbor(c, m) \in Cells(dims)
                             /\ A[CellNeighbor(c, m)] = "AIR"
          /\ \E m \in 0..5 : CellNeighbor(c, m) \in Cells(dims)
                             /\ A[CellNeighbor(c, m)] = "FLUID"


\* -------------------------------------------------------------------- C22

DensityRan == InStep /\ trace # <<>> /\ Last(trace) = "ComputeDensity"

\* A position in [0,1]^3, in position quanta.
InUnitCube(p) == \A n \in 1..3 : p[n] >= 0 /\ p[n] <= Maxd(dims) * CellUnits

\* C22: the cell ComputeDensity (710-715) and AdvectParticles (261-264) pass to
\* GetCellNeighbors for a fluid particle with a position in [0,1]^3 is a cell of
\* the grid, whatever the grid's dimensions.
C22_NeighborCellInGrid ==
    /\ DensityRan =>
          \A i \in FluidIndices(particles) :
              InUnitCube(particles[i].p) =>
                  DensityCell(dims, particles[i].p) \in Cells(dims)
    /\ AdvectRan =>
          \A i \in FluidIndices(before.particles) :
              InUnitCube(SortedInAdvect[i].p) =>
                  AdvectCell(dims, ClampToWalls(dims, SortedInAdvect[i].p)) \in Cells(dims)

\* The same for AdvectParticles alone.
AdvectCellInGrid ==
    AdvectRan =>
        \A i \in FluidIndices(before.particles) :
            AdvectCell(dims, ClampToWalls(dims, SortedInAdvect[i].p)) \in Cells(dims)


\* -------------------------------------------------------------------- C23

\* The preconditioner grid when the loop of buildPreconditioner is about to
\* take flat index gn.
RECURSIVE PreconAt(_)
PreconAt(gn) ==
    IF gn = 0 THEN ZeroCells(dims)
    ELSE LET prev == PreconAt(gn - 1)
             c == FlatIndex(dims, gn - 1)
         IN  IF c \in Cells(dims)
             THEN [prev EXCEPT ![c] = PreconditionerCell(prev, A, L, c, dims, subcell,
                                                         fluidCode)]
             ELSE prev

\* The in-domain predecessors (i-1,j,k), (i,j-1,k), (i,j,k-1) of cell c.
Predecessors(c) == {CellNeighbor(c, m) : m \in {0, 2, 4}} \cap Cells(dims)

\* C23: when the loop of buildPreconditioner processes a FLUID cell, each of
\* the cell's in-domain predecessors has been processed, at an earlier flat
\* index, and holds the value it has when buildPreconditioner returns; on
\* every grid.
C23_PredecessorsFirst ==
    SolveRan =>
        /\ PreconAt(dims[1] * dims[2] * dims[3]) = precon
        /\ \A gn \in FlatRange(dims) :
              LET c == FlatIndex(dims, gn)
              IN  (c \in Cells(dims) /\ A[c] = "FLUID") =>
                      \A q \in Predecessors(c) :
                          /\ \E gq \in 0..(gn - 1) : FlatIndex(dims, gq) = q
                          /\ PreconAt(gn)[q] = precon[q]

\* solve has run on a grid that is not a cube, and the loop has processed a
\* FLUID cell with two FLUID predecessors that hold a stored value.
C23_Witness ==
    /\ SolveRan
    /\ ~(dims[1] = dims[2] /\ dims[2] = dims[3])
    /\ \E c \in Cells(dims) :
          /\ A[c] = "FLUID" /\ Visited(dims, c)
          /\ Cardinality({q \in Predecessors(c) : A[q] = "FLUID" /\ precon[q] > 0}) >= 2


====
